---- MODULE Spec2Model ----
(***************************************************************************)
(* ARM7TDMI instruction core of rudolphalmeida/gba: register file with     *)
(* banked registers, condition evaluation, ARM decoder, the branch and     *)
(* data-processing executors, and the two-slot prefetch pipeline.          *)
(*                                                                         *)
(* Representation of machine words.  A u32 is the set of its set bit       *)
(* positions, a subset of 0..31 (bit 0 is the least significant bit):      *)
(*   0x00000000 = {}     0x00000001 = {0}     0x80000000 = {31}            *)
(*   0xFFFFFFFF = 0..31                                                    *)
(* so  a & b = a \cap b,  a | b = a \cup b,  !a = (0..31) \ a,  and        *)
(* "a & (1 << k) != 0" is  k \in a.  Arithmetic is done on the two 16-bit  *)
(* halves of a word, so every sum is exact and wraps modulo 2^32.  A u64   *)
(* is a subset of 0..63 and a u16 a subset of 0..15 in the same way.       *)
(***************************************************************************)
EXTENDS Integers, Sequences, FiniteSets, TLC

VARIABLES cpu, bus, initial, last, steps, comm

vars == <<cpu, bus, initial, last, steps, comm>>

\* the core run without the user interface: no emulation thread, no channels
NoComm ==
    [ui |-> "none", thread |-> "none", cmd |-> [kind |-> "none"], job |-> [kind |-> "none"],
     emu |-> <<>>, gba |-> FALSE, received |-> 0, produced |-> 0, loads |-> 0]

---------------------------------------------------------------------------
(* Machine words                                                           *)

Bits16 == 0..15
Bits32 == 0..31
Bits64 == 0..63

\* 2^16: the weight of the upper half of a word
Half == 2^16

\* the element of a one-element set
Value(S) == CHOOSE v \in S : TRUE

\* F applied to the value of e, with e evaluated once: `let v = e; F(v)`
Bind(e, F(_)) == Value({F(v) : v \in {e}})

\* the number whose set bits are S (S within 0..15)
ToNat(S) ==
    Bind(S, LAMBDA w :
        (IF 0 \in w THEN 1 ELSE 0)       + (IF 1 \in w THEN 2 ELSE 0)
      + (IF 2 \in w THEN 4 ELSE 0)       + (IF 3 \in w THEN 8 ELSE 0)
      + (IF 4 \in w THEN 16 ELSE 0)      + (IF 5 \in w THEN 32 ELSE 0)
      + (IF 6 \in w THEN 64 ELSE 0)      + (IF 7 \in w THEN 128 ELSE 0)
      + (IF 8 \in w THEN 256 ELSE 0)     + (IF 9 \in w THEN 512 ELSE 0)
      + (IF 10 \in w THEN 1024 ELSE 0)   + (IF 11 \in w THEN 2048 ELSE 0)
      + (IF 12 \in w THEN 4096 ELSE 0)   + (IF 13 \in w THEN 8192 ELSE 0)
      + (IF 14 \in w THEN 16384 ELSE 0)  + (IF 15 \in w THEN 32768 ELSE 0))

\* the 16-bit word of the number n
Word16(n) == {i \in Bits16 : (n \div 2^i) % 2 = 1}

\* the u32 with upper half hi and lower half lo, both numbers in 0..65535
U32(hi, lo) == Word16(lo) \cup {i + 16 : i \in Word16(hi)}

Lo16(w) == ToNat(w \cap Bits16)
Hi16(w) == ToNat({i - 16 : i \in (w \cap (16..31))})

Bit(w, i) == IF i \in w THEN 1 ELSE 0

\* u32::overflowing_add with a carry in: the wrapped sum and the carry out
AddWithCarry(a, b, cin) ==
    Bind(Lo16(a) + Lo16(b) + cin, LAMBDA lo :
    Bind(Hi16(a) + Hi16(b) + (lo \div Half), LAMBDA hi :
        [value |-> U32(hi % Half, lo % Half), carry |-> hi >= Half]))

overflowing_add(a, b) == AddWithCarry(a, b, 0)

wrapping_add(a, b) == AddWithCarry(a, b, 0).value

not32(a) == Bits32 \ a

\* a - b = a + !b + 1 (mod 2^32)
wrapping_sub(a, b) == AddWithCarry(a, not32(b), 1).value

\* u32::wrapping_mul(4): two doublings
wrapping_mul4(a) == Bind(wrapping_add(a, a), LAMBDA d : wrapping_add(d, d))

xor32(a, b) == (a \ b) \cup (b \ a)

\* unsigned a >= b
GreaterEq(a, b) ==
    \/ Hi16(a) > Hi16(b)
    \/ Hi16(a) = Hi16(b) /\ Lo16(a) >= Lo16(b)

\* `x as u16 as u32`: truncation to the low half
as_u16(w) == w \cap Bits16

---------------------------------------------------------------------------
(* Register file: src/cpu/registers.rs                                     *)

PC_IDX == 15

Modes == {"User", "Fiq", "Irq", "Supervisor", "Abort", "Undefined", "System"}

\* enum CpuMode discriminants
CpuMode(m) ==
    CASE m = "User"       -> {4}
      [] m = "Fiq"        -> {4, 0}
      [] m = "Irq"        -> {4, 1}
      [] m = "Supervisor" -> {4, 1, 0}
      [] m = "Abort"      -> {4, 2, 1, 0}
      [] m = "Undefined"  -> {4, 3, 1, 0}
      [] m = "System"     -> {4, 3, 2, 1, 0}

\* enum CpuState discriminants
CpuState(s) == IF s = "Thumb" THEN {5} ELSE {}

\* enum CondFlag discriminants
CondFlag(f) ==
    CASE f = "Sign"       -> {31}
      [] f = "Zero"       -> {30}
      [] f = "Carry"      -> {29}
      [] f = "Overflow"   -> {28}
      [] f = "IrqDisable" -> {7}
      [] f = "FiqDisable" -> {6}
      [] f = "State"      -> {5}
      [] f = "ModeMask"   -> {4, 3, 2, 1, 0}

\* try_from for CpuMode falling back to System for an unknown encoding
TryFromCpuMode_default(value) ==
    LET x == value \cap {4, 3, 2, 1, 0}
    IN  IF \E m \in Modes : x = CpuMode(m)
        THEN CHOOSE m \in Modes : x = CpuMode(m)
        ELSE "System"

\* impl TryFrom<u32> for CpuMode: the mode, or "Err"
TryFromCpuMode(value) ==
    LET x == value \cap {4, 3, 2, 1, 0}
    IN  IF \E m \in Modes : x = CpuMode(m)
        THEN CHOOSE m \in Modes : x = CpuMode(m)
        ELSE "Err"

\* impl TryFrom<u32> for CpuState: the state, or "Err"
TryFromCpuState(value) ==
    CASE value = CpuState("Arm")   -> "Arm"
      [] value = CpuState("Thumb") -> "Thumb"
      [] OTHER                     -> "Err"

state(rf) == TryFromCpuState(rf.cpsr \cap CondFlag("State"))

mode(rf) == TryFromCpuMode(rf.cpsr \cap CondFlag("ModeMask"))

\* spsr_moded giving System the saved status word of Supervisor
spsr_moded_system(rf) ==
    Bind(mode(rf), LAMBDA cm :
        CASE cm = "User"       -> rf.cpsr
          [] cm = "Fiq"        -> rf.spsr_fiq
          [] cm = "Irq"        -> rf.spsr_irq
          [] cm = "Supervisor" -> rf.spsr_svc
          [] cm = "Abort"      -> rf.spsr_abt
          [] cm = "Undefined"  -> rf.spsr_und
          [] cm = "System"     -> rf.spsr_svc)

spsr_moded(rf) ==
    Bind(mode(rf), LAMBDA cm :
        CASE cm = "User"       -> rf.cpsr
          [] cm = "Fiq"        -> rf.spsr_fiq
          [] cm = "Irq"        -> rf.spsr_irq
          [] cm = "Supervisor" -> rf.spsr_svc
          [] cm = "Abort"      -> rf.spsr_abt
          [] cm = "Undefined"  -> rf.spsr_und
          [] cm = "System"     -> rf.cpsr)

sign(rf) == (rf.cpsr \cap CondFlag("Sign")) # {}

zero(rf) == (rf.cpsr \cap CondFlag("Zero")) # {}

carry(rf) == (rf.cpsr \cap CondFlag("Carry")) # {}

overflow(rf) == (rf.cpsr \cap CondFlag("Overflow")) # {}

update_flag(rf, flag, value) ==
    IF value
    THEN [rf EXCEPT !.cpsr = @ \cup CondFlag(flag)]
    ELSE [rf EXCEPT !.cpsr = @ \cap not32(CondFlag(flag))]


\* get_and_incr_pc: the old PC and the register file with the PC advanced
get_and_incr_pc(rf, by) ==
    [res |-> rf.user_bank[PC_IDX],
     rf  |-> [rf EXCEPT !.user_bank[PC_IDX] = wrapping_add(@, by)]]

\* impl Index<usize> for RegisterFile: the value read at an index
index(rf, i) ==
    Bind(mode(rf), LAMBDA cm :
        CASE cm = "User" -> rf.user_bank[i]
          [] cm = "Fiq" /\ i \in 8..14 -> rf.fiq_registers[i - 8]
          [] cm = "Fiq" /\ i \notin 8..14 -> rf.user_bank[i]
          [] cm = "Irq" /\ i = 13 -> rf.r13_irq
          [] cm = "Irq" /\ i = 14 -> rf.r14_irq
          [] cm = "Irq" /\ i \notin {13, 14} -> rf.user_bank[i]
          [] cm = "Supervisor" /\ i = 13 -> rf.r13_svc
          [] cm = "Supervisor" /\ i = 14 -> rf.r14_svc
          [] cm = "Supervisor" /\ i \notin {13, 14} -> rf.user_bank[i]
          [] cm = "Abort" /\ i = 13 -> rf.r13_abt
          [] cm = "Abort" /\ i = 14 -> rf.r14_abt
          [] cm = "Abort" /\ i \notin {13, 14} -> rf.user_bank[i]
          [] cm = "Undefined" /\ i = 13 -> rf.r13_und
          [] cm = "Undefined" /\ i = 14 -> rf.r14_und
          [] cm = "Undefined" /\ i \notin {13, 14} -> rf.user_bank[i]
          [] cm = "System" -> rf.user_bank[i])

\* index_mut without banking: every index names the user bank
index_mut_unbanked(rf, i, v) == [rf EXCEPT !.user_bank[i] = v]

\* impl IndexMut<usize> for RegisterFile: the register file after `rf[i] = v`
index_mut(rf, i, v) ==
    Bind(mode(rf), LAMBDA cm :
        CASE cm = "User" -> [rf EXCEPT !.user_bank[i] = v]
          [] cm = "Fiq" /\ i \in 8..14 -> [rf EXCEPT !.fiq_registers[i - 8] = v]
          [] cm = "Fiq" /\ i \notin 8..14 -> [rf EXCEPT !.user_bank[i] = v]
          [] cm = "Irq" /\ i = 13 -> [rf EXCEPT !.r13_irq = v]
          [] cm = "Irq" /\ i = 14 -> [rf EXCEPT !.r14_irq = v]
          [] cm = "Irq" /\ i \notin {13, 14} -> [rf EXCEPT !.user_bank[i] = v]
          [] cm = "Supervisor" /\ i = 13 -> [rf EXCEPT !.r13_svc = v]
          [] cm = "Supervisor" /\ i = 14 -> [rf EXCEPT !.r14_svc = v]
          [] cm = "Supervisor" /\ i \notin {13, 14} -> [rf EXCEPT !.user_bank[i] = v]
          [] cm = "Abort" /\ i = 13 -> [rf EXCEPT !.r13_abt = v]
          [] cm = "Abort" /\ i = 14 -> [rf EXCEPT !.r14_abt = v]
          [] cm = "Abort" /\ i \notin {13, 14} -> [rf EXCEPT !.user_bank[i] = v]
          [] cm = "Undefined" /\ i = 13 -> [rf EXCEPT !.r13_und = v]
          [] cm = "Undefined" /\ i = 14 -> [rf EXCEPT !.r14_und = v]
          [] cm = "Undefined" /\ i \notin {13, 14} -> [rf EXCEPT !.user_bank[i] = v]
          [] cm = "System" -> [rf EXCEPT !.user_bank[i] = v])

---------------------------------------------------------------------------
(* Condition field: src/cpu/opcodes.rs                                     *)

\* (opcode >> 28) as u8, transmuted to enum Condition (every value 0..15 is
\* a discriminant of the enum)
condition_from_opcode(opcode) == ToNat({i - 28 : i \in (opcode \cap (28..31))})

\* check_condition with the signed comparisons on the wrong flags
check_condition_swapped(rf, opcode) ==
    LET condition == condition_from_opcode(opcode)
        z == zero(rf)
        c == carry(rf)
        v == overflow(rf)
        n == sign(rf)
    IN  CASE condition = 0  -> z
          [] condition = 1  -> ~z
          [] condition = 2  -> c
          [] condition = 3  -> ~c
          [] condition = 4  -> n
          [] condition = 5  -> ~n
          [] condition = 6  -> v
          [] condition = 7  -> ~v
          [] condition = 8  -> c /\ ~z
          [] condition = 9  -> ~c \/ z
          [] condition = 10 -> n = c
          [] condition = 11 -> n # c
          [] condition = 12 -> ~z /\ (n = c)
          [] condition = 13 -> z \/ (n # c)
          [] condition = 14 -> TRUE
          [] condition = 15 -> FALSE

check_condition(rf, opcode) ==
    LET condition == condition_from_opcode(opcode)
        z == zero(rf)
        c == carry(rf)
        v == overflow(rf)
        n == sign(rf)
    IN  CASE condition = 0  -> z
          [] condition = 1  -> ~z
          [] condition = 2  -> c
          [] condition = 3  -> ~c
          [] condition = 4  -> n
          [] condition = 5  -> ~n
          [] condition = 6  -> v
          [] condition = 7  -> ~v
          [] condition = 8  -> c /\ ~z
          [] condition = 9  -> ~c \/ z
          [] condition = 10 -> n = v
          [] condition = 11 -> n # v
          [] condition = 12 -> ~z /\ (n = v)
          [] condition = 13 -> z \/ (n # v)
          [] condition = 14 -> TRUE
          [] condition = 15 -> FALSE

---------------------------------------------------------------------------
(* Bus: access kinds and the transaction bus of the opcode tests           *)

\* The access kind is a small bit set: code or data, sequential or not.
\* It is written here as a set of the names of its set bits.
ACCESS_NONSEQ == {}

ACCESS_SEQ == {"seq"}

ACCESS_CODE == {"code"}

\* TransactionSystemBus::find_transaction_for_addr: the next recorded data
\* transaction if it is for this address
find_transaction_for_addr(b, address) ==
    IF b.next_index >= Len(b.transactions)
    THEN [found |-> FALSE, bus |-> b]
    ELSE LET transaction == b.transactions[b.next_index + 1]
         IN  IF transaction.addr = address
             THEN [found |-> TRUE, data |-> transaction.data,
                   bus |-> [b EXCEPT !.next_index = b.next_index + 1]]
             ELSE [found |-> FALSE, bus |-> b]

\* what the bus saw: every call the core makes is appended to bus.calls
Record(b, kind, address, access) ==
    [b EXCEPT !.calls = Append(b.calls, [kind |-> kind, addr |-> address, access |-> access])]

\* TransactionSystemBus::read_word: the word read and the bus afterwards
read_word(b, addr, access) ==
    LET address == addr \ {0, 1}
        logged  == Record(b, "read_word", addr, access)
    IN  IF "code" \notin access
        THEN LET t == find_transaction_for_addr(logged, address)
             IN  [value |-> IF t.found THEN t.data ELSE address, bus |-> t.bus]
        ELSE [value |-> IF address = b.base_addr THEN b.opcode ELSE address,
              bus |-> logged]

\* TransactionSystemBus::read_half_word: the half word read, widened to u32
read_half_word(b, addr, access) ==
    LET address == addr \ {0}
        logged  == Record(b, "read_half_word", addr, access)
    IN  IF "code" \notin access
        THEN LET t == find_transaction_for_addr(logged, address)
             IN  [value |-> IF t.found THEN as_u16(t.data) ELSE as_u16(address),
                  bus |-> t.bus]
        ELSE [value |-> IF address = b.base_addr THEN as_u16(b.opcode) ELSE as_u16(address),
              bus |-> logged]

\* bus.idle(): an internal cycle
idle(b) == Record(b, "idle", {}, {})

\* SystemBus::write_word: the bus is handed the address, the word and the
\* access kind of the store
write_word(b, address, data, access) ==
    [b EXCEPT !.calls = Append(b.calls, [kind |-> "write_word", addr |-> address,
                                          access |-> access, data |-> data])]

---------------------------------------------------------------------------
(* Pipeline: src/cpu/mod.rs.  A machine m is [cpu |-> Arm7Cpu, bus |-> bus]*)
(* The sequence cpu.pipeline is indexed from 1: pipeline[1] is the slot     *)
(* the source calls pipeline[0], pipeline[2] the slot it calls pipeline[1].*)

\* impl Default for RegisterFile with the mode bits left clear
RegisterFile_default_nomode ==
    [user_bank     |-> [i \in 0..15 |-> {}],
     fiq_registers |-> [j \in 0..6 |-> {}],
     spsr_fiq      |-> {},
     r13_svc       |-> {},
     r14_svc       |-> {},
     spsr_svc      |-> {},
     r13_abt       |-> {},
     r14_abt       |-> {},
     spsr_abt      |-> {},
     r13_irq       |-> {},
     r14_irq       |-> {},
     spsr_irq      |-> {},
     r13_und       |-> {},
     r14_und       |-> {},
     spsr_und      |-> {},
     cpsr          |-> {7, 6} \cup CpuState("Arm")]

\* impl Default for RegisterFile: CpuMode::default() is System and
\* CpuState::default() is Arm
RegisterFile_default ==
    [user_bank     |-> [i \in 0..15 |-> {}],
     fiq_registers |-> [j \in 0..6 |-> {}],
     spsr_fiq      |-> {},
     r13_svc       |-> {},
     r14_svc       |-> {},
     spsr_svc      |-> {},
     r13_abt       |-> {},
     r14_abt       |-> {},
     spsr_abt      |-> {},
     r13_irq       |-> {},
     r14_irq       |-> {},
     spsr_irq      |-> {},
     r13_und       |-> {},
     r14_und       |-> {},
     spsr_und      |-> {},
     cpsr          |-> {7, 6} \cup CpuMode("System") \cup CpuState("Arm")]

\* Arm7Cpu::new
new ==
    [registers   |-> RegisterFile_default,
     pipeline    |-> <<{}, {}>>,
     next_access |-> ACCESS_CODE]

toggle_cpu_state(c) ==
    [c EXCEPT !.registers.cpsr = xor32(c.registers.cpsr, CondFlag("State"))]

\* switch_cpu_mode without clearing the mode field first
switch_cpu_mode_or(c, cpu_mode) ==
    [c EXCEPT !.registers.cpsr = c.registers.cpsr \cup CpuMode(cpu_mode)]

\* switch_cpu_mode carrying R13 and R14 of the user bank over to Supervisor
switch_cpu_mode_copy(c, cpu_mode) ==
    [c EXCEPT !.registers.cpsr =
                  (c.registers.cpsr \cap not32(CondFlag("ModeMask"))) \cup CpuMode(cpu_mode),
              !.registers.r13_svc = c.registers.user_bank[13],
              !.registers.r14_svc = c.registers.user_bank[14]]

switch_cpu_mode(c, cpu_mode) ==
    [c EXCEPT !.registers.cpsr =
        (c.registers.cpsr \cap not32(CondFlag("ModeMask"))) \cup CpuMode(cpu_mode)]

reload_pipeline16(m) ==
    Bind(get_and_incr_pc(m.cpu.registers, {1}), LAMBDA p0 :
    Bind(read_half_word(m.bus, p0.res, m.cpu.next_access), LAMBDA r0 :
    Bind(get_and_incr_pc(p0.rf, {1}), LAMBDA p1 :
    Bind(read_half_word(r0.bus, p1.res, ACCESS_CODE \cup ACCESS_SEQ), LAMBDA r1 :
        [cpu |-> [registers   |-> p1.rf,
                  pipeline    |-> <<r0.value, r1.value>>,
                  next_access |-> ACCESS_CODE \cup ACCESS_SEQ],
         bus |-> r1.bus]))))

reload_pipeline32(m) ==
    Bind(get_and_incr_pc(m.cpu.registers, {2}), LAMBDA p0 :
    Bind(read_word(m.bus, p0.res, m.cpu.next_access), LAMBDA r0 :
    Bind(get_and_incr_pc(p0.rf, {2}), LAMBDA p1 :
    Bind(read_word(r0.bus, p1.res, ACCESS_CODE \cup ACCESS_SEQ), LAMBDA r1 :
        [cpu |-> [registers   |-> p1.rf,
                  pipeline    |-> <<r0.value, r1.value>>,
                  next_access |-> ACCESS_CODE \cup ACCESS_SEQ],
         bus |-> r1.bus]))))

reload_pipeline(m) ==
    Bind(m, LAMBDA c :
        IF state(c.cpu.registers) = "Arm" THEN reload_pipeline32(c) ELSE reload_pipeline16(c))

---------------------------------------------------------------------------
(* Decoder: src/cpu/opcodes.rs                                             *)

\* the number held in bits lo..hi of a word
Field(opcode, lo, hi) == ToNat({i - lo : i \in (opcode \cap (lo..hi))})

None == [kind |-> "None"]

\* B, BL: opcode & 0x0E000000 == 0x0A000000
try_decode_b_bl(opcode) ==
    IF (opcode \cap {27, 26, 25}) # {27, 25}
    THEN None
    ELSE IF 24 \notin opcode
         THEN [kind |-> "B", offset |-> opcode \cap (0..23)]
         ELSE [kind |-> "BL", offset |-> opcode \cap (0..23)]

\* BX: opcode & 0x0FFFFF10 == 0x012FFF10
try_decode_bx(opcode) ==
    IF (opcode \cap ((8..27) \cup {4})) # ({24, 21, 19, 18, 17, 16} \cup (8..15) \cup {4})
    THEN None
    ELSE [kind |-> "BX", register_idx |-> Field(opcode, 0, 3)]

\* the data-processing decoder without the test of bit 20 for TST..CMN
try_decode_data_processing_any_s(opcode) ==
    LET sub_opcode        == Field(opcode, 21, 24)
        set_flags         == 20 \in opcode
        rn                == Field(opcode, 16, 19)
        rd                == Field(opcode, 12, 15)
        operand           == [form |-> "Immediate", value |-> opcode \cap (0..7)]
    IN  CASE (opcode \cap {27, 26}) # {} -> None
          [] sub_opcode \in {13, 15} /\ rn # 0 -> None
          [] sub_opcode \in 8..11 /\ rd # 0 /\ rd # 15 -> None
          [] 25 \notin opcode /\ 4 \in opcode /\ 7 \in opcode -> None
          [] OTHER -> [kind       |-> "DataProcessing",
                       operand    |-> operand,
                       rd         |-> rd,
                       rn         |-> rn,
                       sub_opcode |-> sub_opcode,
                       set_flags  |-> set_flags]

\* the data-processing decoder accepting any destination for TST..CMN
try_decode_data_processing_any_rd(opcode) ==
    LET sub_opcode        == Field(opcode, 21, 24)
        set_flags         == 20 \in opcode
        rn                == Field(opcode, 16, 19)
        rd                == Field(opcode, 12, 15)
        operand           == [form |-> "Immediate", value |-> opcode \cap (0..7)]
    IN  CASE (opcode \cap {27, 26}) # {} -> None
          [] sub_opcode \in 8..11 /\ ~set_flags -> None
          [] sub_opcode \in {13, 15} /\ rn # 0 -> None
          [] 25 \notin opcode /\ 4 \in opcode /\ 7 \in opcode -> None
          [] OTHER -> [kind       |-> "DataProcessing",
                       operand    |-> operand,
                       rd         |-> rd,
                       rn         |-> rn,
                       sub_opcode |-> sub_opcode,
                       set_flags  |-> set_flags]

try_decode_data_processing(opcode) ==
    LET sub_opcode        == Field(opcode, 21, 24)
        set_flags         == 20 \in opcode
        rn                == Field(opcode, 16, 19)
        rd                == Field(opcode, 12, 15)
        is_immediate      == 25 \in opcode
        nn                == opcode \cap (0..7)
        rot               == 2 * Field(opcode, 8, 11)
        shift_by_register == 4 \in opcode
        operand_register  == Field(opcode, 0, 3)
        shift_type        == Field(opcode, 5, 6)
        operand ==
            IF is_immediate
            THEN IF rot # 0
                 THEN [form |-> "ShiftedImmediate", operand |-> nn, shift |-> rot]
                 ELSE [form |-> "Immediate", value |-> nn]
            ELSE IF shift_by_register
                 THEN [form |-> "RegisterShiftedRegister",
                       operand_register |-> operand_register,
                       shift_register   |-> Field(opcode, 8, 11),
                       shift_type       |-> shift_type]
                 ELSE [form |-> "ImmediateShiftedRegister",
                       operand_register |-> operand_register,
                       shift            |-> Field(opcode, 7, 11),
                       shift_type       |-> shift_type]
    IN  CASE (opcode \cap {27, 26}) # {} -> None
          [] sub_opcode \in 8..11 /\ ~set_flags -> None
          [] sub_opcode \in {13, 15} /\ rn # 0 -> None
          [] sub_opcode \in 8..11 /\ rd # 0 /\ rd # 15 -> None
          [] ~is_immediate /\ shift_by_register /\ 7 \in opcode -> None
          [] OTHER -> [kind       |-> "DataProcessing",
                       operand    |-> operand,
                       rd         |-> rd,
                       rn         |-> rn,
                       sub_opcode |-> sub_opcode,
                       set_flags  |-> set_flags]

\* try_decode_ldm_stm testing bits 27 and 26 only
try_decode_ldm_stm_wide(opcode) ==
    IF (opcode \cap {27, 26}) # {27}
    THEN None
    ELSE [kind                    |-> "BlockDataTransfer",
          transfer_type           |-> IF 20 \in opcode THEN "LDM" ELSE "STM",
          pre_increment           |-> 24 \in opcode,
          increment               |-> 23 \in opcode,
          psr_n_force_user        |-> 22 \in opcode,
          write_address_into_base |-> 21 \in opcode,
          base_register           |-> Field(opcode, 16, 19),
          rlist                   |-> opcode \cap (0..15)]

\* LDM, STM: opcode & 0x0E000000 == 0x08000000
try_decode_ldm_stm(opcode) ==
    IF (opcode \cap {27, 26, 25}) # {27}
    THEN None
    ELSE [kind                    |-> "BlockDataTransfer",
          transfer_type           |-> IF 20 \in opcode THEN "LDM" ELSE "STM",
          pre_increment           |-> 24 \in opcode,
          increment               |-> 23 \in opcode,
          psr_n_force_user        |-> 22 \in opcode,
          write_address_into_base |-> 21 \in opcode,
          base_register           |-> Field(opcode, 16, 19),
          rlist                   |-> opcode \cap (0..15)]

\* the first decoder that accepts the word wins
decode_arm_opcode(opcode) ==
    Bind(opcode, LAMBDA w :
        CASE try_decode_b_bl(w) # None -> try_decode_b_bl(w)
          [] try_decode_bx(w) # None -> try_decode_bx(w)
          [] try_decode_data_processing(w) # None -> try_decode_data_processing(w)
          [] try_decode_ldm_stm(w) # None -> try_decode_ldm_stm(w)
          [] OTHER -> None)

---------------------------------------------------------------------------
(* Branch executors: src/cpu/opcodes.rs                                    *)

SetReg(m, i, v) == [m EXCEPT !.cpu.registers = index_mut(@, i, v)]

SetAccess(m, access) == [m EXCEPT !.cpu.next_access = access]

\* execute_b without the sign extension of the offset
execute_b_unsigned(m, offset24) ==
    LET destination == wrapping_add(index(m.cpu.registers, PC_IDX), wrapping_mul4(offset24))
    IN  reload_pipeline(
            SetAccess(SetReg(m, PC_IDX, destination), ACCESS_CODE \cup ACCESS_SEQ))

\* execute_b with the offset counted in half words
execute_b_halfwords(m, offset24) ==
    LET offset      == IF 23 \in offset24 THEN offset24 \cup (24..31) ELSE offset24
        destination == wrapping_add(index(m.cpu.registers, PC_IDX), wrapping_add(offset, offset))
    IN  reload_pipeline(
            SetAccess(SetReg(m, PC_IDX, destination), ACCESS_CODE \cup ACCESS_SEQ))

execute_b(m, offset24) ==
    LET offset      == IF 23 \in offset24 THEN offset24 \cup (24..31) ELSE offset24
        destination == wrapping_add(index(m.cpu.registers, PC_IDX), wrapping_mul4(offset))
    IN  reload_pipeline(
            SetAccess(SetReg(m, PC_IDX, destination), ACCESS_CODE \cup ACCESS_SEQ))

\* execute_bl with the link taken after the branch
execute_bl_late(m, offset) ==
    Bind(execute_b(m, offset), LAMBDA branched :
        SetReg(branched, 14, wrapping_sub(index(branched.cpu.registers, PC_IDX), {2})))

execute_bl(m, offset) ==
    Bind(wrapping_sub(index(m.cpu.registers, PC_IDX), {2}), LAMBDA link :
        SetReg(execute_b(m, offset), 14, link))

\* execute_arm_to_thumb_bx that keeps bit 0 of the address
execute_arm_to_thumb_bx_odd(m, register_idx) ==
    Bind(index(m.cpu.registers, register_idx), LAMBDA value :
        LET toggled == IF 0 \in value
                       THEN [m EXCEPT !.cpu = toggle_cpu_state(@)]
                       ELSE m
        IN  reload_pipeline(
                SetAccess(SetReg(toggled, PC_IDX, value), ACCESS_CODE \cup ACCESS_NONSEQ)))

\* called in ARM state only (assert_eq!(cpu.registers.state(), CpuState::Arm))
execute_arm_to_thumb_bx(m, register_idx) ==
    Bind(index(m.cpu.registers, register_idx), LAMBDA value :
        LET destination == value \ {0}
            toggled     == IF 0 \in value
                           THEN [m EXCEPT !.cpu = toggle_cpu_state(@)]
                           ELSE m
        IN  reload_pipeline(
                SetAccess(SetReg(toggled, PC_IDX, destination), ACCESS_CODE \cup ACCESS_NONSEQ)))

---------------------------------------------------------------------------
(* Barrel shifter: src/cpu/opcodes.rs                                      *)

\* enum DataProcessingOpcode discriminants
AND == 0
EOR == 1
SUB == 2
RSB == 3
ADD == 4
ADC == 5
SBC == 6
RSC == 7
TST == 8
TEQ == 9
CMP == 10
CMN == 11
ORR == 12
MOV == 13
BIC == 14
MVN == 15

\* enum ShiftType discriminants
Lsl == 0
Lsr == 1
Asr == 2
Ror == 3

Min(a, b) == IF a < b THEN a ELSE b

\* u32::unbounded_shl: bits shifted past bit 31 are lost, amount >= 32 gives 0
lsl(value, amount) == {i + amount : i \in value} \cap Bits32

\* u32::unbounded_shr
lsr(value, amount) == {i - amount : i \in {j \in value : j >= amount}}

\* i32::unbounded_shr: bit 31 is copied into the vacated bits
asr(value, amount) ==
    {j \in Bits32 : IF j + amount <= 31 THEN (j + amount) \in value ELSE 31 \in value}

\* u32::rotate_right: the amount is taken modulo 32
ror(value, amount) == {(i + 32 - (amount % 32)) % 32 : i \in value}

\* `value as i32 as i64`: sign extension to 64 bits
SignExtend64(value) == IF 31 \in value THEN value \cup (32..63) ELSE value

\* shift whose carry is computed with the amount clamped to 32
shift_clamped(shift_type, value, amount) ==
    LET expanded_amount == Min(32, amount)
    IN  IF amount = 0
        THEN [value |-> value, carry |-> FALSE]
        ELSE CASE shift_type = Lsl ->
                    [value |-> lsl(value, amount),
                     carry |-> 31 \in ({i + (expanded_amount - 1) : i \in value} \cap Bits64)]
               [] shift_type = Lsr ->
                    [value |-> lsr(value, amount),
                     carry |-> (expanded_amount - 1) \in value]
               [] shift_type = Asr ->
                    [value |-> asr(value, amount),
                     carry |-> (expanded_amount - 1) \in SignExtend64(value)]
               [] shift_type = Ror ->
                    [value |-> ror(value, amount),
                     carry |-> 31 \in ror(value, amount)]

\* the shifted (rotated) value and the carry shifted out
shift(shift_type, value, amount) ==
    LET expanded_amount == Min(33, amount)
    IN  IF amount = 0
        THEN [value |-> value, carry |-> FALSE]
        ELSE CASE shift_type = Lsl ->
                    [value |-> lsl(value, amount),
                     carry |-> 31 \in ({i + (expanded_amount - 1) : i \in value} \cap Bits64)]
               [] shift_type = Lsr ->
                    [value |-> lsr(value, amount),
                     carry |-> (expanded_amount - 1) \in value]
               [] shift_type = Asr ->
                    [value |-> asr(value, amount),
                     carry |-> (expanded_amount - 1) \in SignExtend64(value)]
               [] shift_type = Ror ->
                    [value |-> ror(value, amount),
                     carry |-> 31 \in ror(value, amount)]

---------------------------------------------------------------------------
(* ALU: src/cpu/opcodes.rs.  Every sub-operation gives the machine after   *)
(* its register write, the result, and the ALU carry and overflow.         *)

Reg(m, i) == index(m.cpu.registers, i)

Alu(m, result, c, v) == [m |-> m, result |-> result, carry |-> c, overflow |-> v]

do_sub(operand_a, operand_b) ==
    Bind(wrapping_sub(operand_a, operand_b), LAMBDA result :
        [result   |-> result,
             carry    |-> GreaterEq(operand_a, operand_b),
             overflow |-> 31 \in (xor32(operand_a, operand_b) \cap xor32(operand_a, result))])

\* do_add with the overflow test of a subtraction
do_add_sub_overflow(operand_a, operand_b) ==
    Bind(overflowing_add(operand_a, operand_b), LAMBDA sum :
        [result   |-> sum.value,
             carry    |-> sum.carry,
             overflow |-> 31 \in (xor32(operand_a, operand_b) \cap xor32(operand_a, sum.value))])

do_add(operand_a, operand_b) ==
    Bind(overflowing_add(operand_a, operand_b), LAMBDA sum :
        [result   |-> sum.value,
             carry    |-> sum.carry,
             overflow |-> 31 \in (not32(xor32(operand_a, operand_b)) \cap xor32(operand_a, sum.value))])

\* operand_c is 1 when the carry flag is clear; the comparison is made in
\* 64 bits, so a >= b + 1 is a > b even when b is 0xFFFFFFFF
do_sbc(operand_a, operand_b, carry_in) ==
    Bind(IF carry_in THEN {} ELSE {0}, LAMBDA operand_c :
    Bind(wrapping_sub(wrapping_sub(operand_a, operand_b), operand_c), LAMBDA result :
        [result   |-> result,
         carry    |-> IF operand_c = {}
                      THEN GreaterEq(operand_a, operand_b)
                      ELSE ~GreaterEq(operand_b, operand_a),
         overflow |-> 31 \in (xor32(operand_a, operand_b) \cap xor32(operand_a, result))]))

execute_and(m, rd, rn, operand) ==
    Bind(SetReg(m, rd, Reg(m, rn) \cap operand), LAMBDA w :
        Alu(w, Reg(w, rd), FALSE, FALSE))

execute_eor(m, rd, rn, operand) ==
    Bind(SetReg(m, rd, xor32(Reg(m, rn), operand)), LAMBDA w :
        Alu(w, Reg(w, rd), FALSE, FALSE))

execute_sub(m, rd, rn, operand) ==
    Bind(do_sub(Reg(m, rn), operand), LAMBDA r :
        Alu(SetReg(m, rd, r.result), r.result, r.carry, r.overflow))

execute_rsb(m, rd, rn, operand) ==
    Bind(do_sub(operand, Reg(m, rn)), LAMBDA r :
        Alu(SetReg(m, rd, r.result), r.result, r.carry, r.overflow))

execute_add(m, rd, rn, operand) ==
    Bind(do_add(Reg(m, rn), operand), LAMBDA r :
        Alu(SetReg(m, rd, r.result), r.result, r.carry, r.overflow))

\* the sum is formed in 64 bits; bit 32 of it is the carry
execute_adc(m, rd, rn, operand) ==
    Bind(AddWithCarry(Reg(m, rn), operand, IF carry(m.cpu.registers) THEN 1 ELSE 0), LAMBDA sum :
    Bind(31 \in (not32(xor32(Reg(m, rn), operand)) \cap xor32(Reg(m, rn), sum.value)), LAMBDA v :
    Bind(SetReg(m, rd, sum.value), LAMBDA w :
        Alu(w, Reg(w, rd), sum.carry, v))))

execute_sbc(m, rd, rn, operand) ==
    Bind(do_sbc(Reg(m, rn), operand, carry(m.cpu.registers)), LAMBDA r :
        Alu(SetReg(m, rd, r.result), r.result, r.carry, r.overflow))

execute_rsc(m, rd, rn, operand) ==
    Bind(do_sbc(operand, Reg(m, rn), carry(m.cpu.registers)), LAMBDA r :
        Alu(SetReg(m, rd, r.result), r.result, r.carry, r.overflow))

execute_tst(m, rd, rn, operand) == Alu(m, Reg(m, rn) \cap operand, FALSE, FALSE)

execute_teq(m, rd, rn, operand) == Alu(m, xor32(Reg(m, rn), operand), FALSE, FALSE)

execute_cmp(m, rd, rn, operand) ==
    Bind(do_sub(Reg(m, rn), operand), LAMBDA r :
        Alu(m, r.result, r.carry, r.overflow))

execute_cmn(m, rd, rn, operand) ==
    Bind(do_add(Reg(m, rn), operand), LAMBDA r :
        Alu(m, r.result, r.carry, r.overflow))

execute_orr(m, rd, rn, operand) ==
    Bind(SetReg(m, rd, Reg(m, rn) \cup operand), LAMBDA w :
        Alu(w, Reg(w, rd), FALSE, FALSE))

execute_mov(m, rd, rn, operand) ==
    Bind(SetReg(m, rd, operand), LAMBDA w :
        Alu(w, Reg(w, rd), FALSE, FALSE))

execute_bic(m, rd, rn, operand) ==
    Bind(SetReg(m, rd, Reg(m, rn) \cap not32(operand)), LAMBDA w :
        Alu(w, Reg(w, rd), FALSE, FALSE))

execute_mvn(m, rd, rn, operand) ==
    Bind(SetReg(m, rd, not32(operand)), LAMBDA w :
        Alu(w, Reg(w, rd), FALSE, FALSE))

LogicalOps == {AND, EOR, TST, TEQ, ORR, MOV, BIC, MVN}

TestOps == {TST, TEQ, CMP, CMN}

---------------------------------------------------------------------------
(* Data processing: src/cpu/opcodes.rs                                     *)

\* Option<bool> of the shifter carry
NoCarry == [some |-> FALSE, carry |-> FALSE]

Some(c) == [some |-> TRUE, carry |-> c]

\* ResolveZeroShift with LSR #0 and ASR #0 taken as no shift
ResolveZeroShift_noshift(m, operand) ==
    Bind(Reg(m, operand.operand_register), LAMBDA rm :
        CASE operand.shift_type \in {Lsl, Lsr, Asr} ->
                [m |-> m, operand_b |-> rm, shifted_carry |-> NoCarry]
          [] operand.shift_type = Ror ->
                LET rotated == ror(rm, 1)
                    result  == IF carry(m.cpu.registers)
                               THEN rotated \cup {31}
                               ELSE rotated \ {31}
                IN  [m |-> m, operand_b |-> result, shifted_carry |-> Some(0 \in rm)])

\* ResolveZeroShift with ROR #0 as a plain rotation by one
ResolveZeroShift_ror1(m, operand) ==
    Bind(Reg(m, operand.operand_register), LAMBDA rm :
        CASE operand.shift_type = Lsl ->
                [m |-> m, operand_b |-> rm, shifted_carry |-> NoCarry]
          [] operand.shift_type = Lsr ->
                [m |-> m, operand_b |-> {}, shifted_carry |-> Some(31 \in rm)]
          [] operand.shift_type = Asr ->
                [m |-> m, operand_b |-> asr(rm, 31), shifted_carry |-> Some(31 \in rm)]
          [] operand.shift_type = Ror ->
                [m |-> m, operand_b |-> ror(rm, 1), shifted_carry |-> Some(0 \in rm)])

\* a register shifted by an immediate amount encoded as 0
ResolveZeroShift(m, operand) ==
    Bind(Reg(m, operand.operand_register), LAMBDA rm :
        CASE operand.shift_type = Lsl ->
                [m |-> m, operand_b |-> rm, shifted_carry |-> NoCarry]
          [] operand.shift_type = Lsr ->
                [m |-> m, operand_b |-> {}, shifted_carry |-> Some(31 \in rm)]
          [] operand.shift_type = Asr ->
                [m |-> m, operand_b |-> asr(rm, 31), shifted_carry |-> Some(31 \in rm)]
          [] operand.shift_type = Ror ->
                LET rotated == ror(rm, 1)
                    result  == IF carry(m.cpu.registers)
                               THEN rotated \cup {31}
                               ELSE rotated \ {31}
                IN  [m |-> m, operand_b |-> result, shifted_carry |-> Some(0 \in rm)])

\* the second operand of a data-processing opcode: the machine after the
\* operand is resolved, operand_b and the carry of the barrel shifter
ResolveOperand(m, operand) ==
    CASE operand.form = "Immediate" ->
            [m |-> m, operand_b |-> operand.value, shifted_carry |-> NoCarry]
      [] operand.form = "ShiftedImmediate" ->
            [m |-> m,
             operand_b |-> ror(operand.operand, operand.shift),
             shifted_carry |-> Some((operand.shift - 1) \in operand.operand)]
      [] operand.form = "RegisterShiftedRegister" ->
            Bind(Field(Reg(m, operand.shift_register), 0, 7), LAMBDA shift_amount :
            Bind([m EXCEPT !.bus = idle(@)], LAMBDA idled :
            Bind(SetAccess(SetReg(idled, PC_IDX, wrapping_add(Reg(idled, PC_IDX), {2})),
                           ACCESS_CODE \cup ACCESS_NONSEQ), LAMBDA stepped :
            Bind(Reg(stepped, operand.operand_register), LAMBDA value :
            Bind(shift(operand.shift_type, value, shift_amount), LAMBDA shifted :
                [m |-> stepped,
                 operand_b |-> shifted.value,
                 shifted_carry |-> IF shift_amount # 0 THEN Some(shifted.carry) ELSE NoCarry])))))
      [] operand.form = "ImmediateShiftedRegister" /\ operand.shift = 0 ->
            ResolveZeroShift(m, operand)
      [] operand.form = "ImmediateShiftedRegister" /\ operand.shift # 0 ->
            Bind(Reg(m, operand.operand_register), LAMBDA rv :
            Bind(shift(operand.shift_type, rv,
                       IF operand.shift_type = Asr /\ operand.shift = 0
                       THEN 32
                       ELSE operand.shift), LAMBDA shifted :
                [m |-> m, operand_b |-> shifted.value, shifted_carry |-> Some(shifted.carry)]))

\* the dispatch on the sub-opcode
ExecuteSubOpcode(m, sub_opcode, rd, rn, operand_b) ==
    CASE sub_opcode = AND -> execute_and(m, rd, rn, operand_b)
      [] sub_opcode = EOR -> execute_eor(m, rd, rn, operand_b)
      [] sub_opcode = SUB -> execute_sub(m, rd, rn, operand_b)
      [] sub_opcode = RSB -> execute_rsb(m, rd, rn, operand_b)
      [] sub_opcode = ADD -> execute_add(m, rd, rn, operand_b)
      [] sub_opcode = ADC -> execute_adc(m, rd, rn, operand_b)
      [] sub_opcode = SBC -> execute_sbc(m, rd, rn, operand_b)
      [] sub_opcode = RSC -> execute_rsc(m, rd, rn, operand_b)
      [] sub_opcode = TST -> execute_tst(m, rd, rn, operand_b)
      [] sub_opcode = TEQ -> execute_teq(m, rd, rn, operand_b)
      [] sub_opcode = CMP -> execute_cmp(m, rd, rn, operand_b)
      [] sub_opcode = CMN -> execute_cmn(m, rd, rn, operand_b)
      [] sub_opcode = ORR -> execute_orr(m, rd, rn, operand_b)
      [] sub_opcode = MOV -> execute_mov(m, rd, rn, operand_b)
      [] sub_opcode = BIC -> execute_bic(m, rd, rn, operand_b)
      [] sub_opcode = MVN -> execute_mvn(m, rd, rn, operand_b)

\* UpdateFlags that writes the ALU carry and overflow for every sub-opcode
UpdateFlags_alu(rf, sub_opcode, alu, shifted_carry) ==
    Bind(update_flag(update_flag(rf, "Zero", alu.result = {}), "Sign", 31 \in alu.result),
         LAMBDA zs :
        update_flag(update_flag(zs, "Carry", alu.carry), "Overflow", alu.overflow))

\* the flag update of a data-processing opcode with set_flags
UpdateFlags(rf, sub_opcode, alu, shifted_carry) ==
    Bind(update_flag(update_flag(rf, "Zero", alu.result = {}), "Sign", 31 \in alu.result),
         LAMBDA zs :
        IF sub_opcode \in LogicalOps
        THEN IF shifted_carry.some
             THEN update_flag(zs, "Carry", shifted_carry.carry)
             ELSE zs
        ELSE update_flag(update_flag(zs, "Carry", alu.carry), "Overflow", alu.overflow))

IncrPc(m) == [m EXCEPT !.cpu.registers = get_and_incr_pc(@, {2}).rf]

\* execute_data_processing that never restores the CPSR from the SPSR
execute_data_processing_keep_cpsr(m0, sub_opcode, rd, rn, operand, set_flags) ==
    Bind(SetAccess(m0, ACCESS_CODE \cup ACCESS_SEQ), LAMBDA m1 :
    Bind(ResolveOperand(m1, operand), LAMBDA op :
    Bind(ExecuteSubOpcode(op.m, sub_opcode, rd, rn, op.operand_b), LAMBDA alu :
    Bind(IF set_flags
         THEN [alu.m EXCEPT !.cpu.registers =
                  UpdateFlags(@, sub_opcode, alu, op.shifted_carry)]
         ELSE alu.m, LAMBDA flagged :
        IF rd = PC_IDX /\ sub_opcode \notin TestOps
        THEN reload_pipeline(flagged)
        ELSE IF operand.form # "RegisterShiftedRegister"
             THEN IncrPc(flagged)
             ELSE flagged))))

\* execute_data_processing that reloads the pipeline for every sub-opcode
\* with destination R15
execute_data_processing_reload_tests(m0, sub_opcode, rd, rn, operand, set_flags) ==
    Bind(SetAccess(m0, ACCESS_CODE \cup ACCESS_SEQ), LAMBDA m1 :
    Bind(ResolveOperand(m1, operand), LAMBDA op :
    Bind(ExecuteSubOpcode(op.m, sub_opcode, rd, rn, op.operand_b), LAMBDA alu :
    Bind(IF set_flags
         THEN [alu.m EXCEPT !.cpu.registers =
                  UpdateFlags(@, sub_opcode, alu, op.shifted_carry)]
         ELSE alu.m, LAMBDA flagged :
    Bind(IF rd = PC_IDX /\ set_flags
         THEN [flagged EXCEPT !.cpu.registers.cpsr = spsr_moded(flagged.cpu.registers)]
         ELSE flagged, LAMBDA restored :
        IF rd = PC_IDX
        THEN reload_pipeline(restored)
        ELSE IF operand.form # "RegisterShiftedRegister"
             THEN IncrPc(restored)
             ELSE restored)))))

\* execute_data_processing that updates the flags whatever set_flags is
execute_data_processing_always_flags(m0, sub_opcode, rd, rn, operand, set_flags) ==
    Bind(SetAccess(m0, ACCESS_CODE \cup ACCESS_SEQ), LAMBDA m1 :
    Bind(ResolveOperand(m1, operand), LAMBDA op :
    Bind(ExecuteSubOpcode(op.m, sub_opcode, rd, rn, op.operand_b), LAMBDA alu :
    Bind([alu.m EXCEPT !.cpu.registers =
             UpdateFlags(@, sub_opcode, alu, op.shifted_carry)], LAMBDA flagged :
    Bind(IF rd = PC_IDX /\ set_flags
         THEN [flagged EXCEPT !.cpu.registers.cpsr = spsr_moded(flagged.cpu.registers)]
         ELSE flagged, LAMBDA restored :
        IF rd = PC_IDX /\ sub_opcode \notin TestOps
        THEN reload_pipeline(restored)
        ELSE IF operand.form # "RegisterShiftedRegister"
             THEN IncrPc(restored)
             ELSE restored)))))

execute_data_processing(m0, sub_opcode, rd, rn, operand, set_flags) ==
    Bind(SetAccess(m0, ACCESS_CODE \cup ACCESS_SEQ), LAMBDA m1 :
    Bind(ResolveOperand(m1, operand), LAMBDA op :
    Bind(ExecuteSubOpcode(op.m, sub_opcode, rd, rn, op.operand_b), LAMBDA alu :
    Bind(IF set_flags
         THEN [alu.m EXCEPT !.cpu.registers =
                  UpdateFlags(@, sub_opcode, alu, op.shifted_carry)]
         ELSE alu.m, LAMBDA flagged :
    Bind(IF rd = PC_IDX /\ set_flags
         THEN [flagged EXCEPT !.cpu.registers.cpsr = spsr_moded(flagged.cpu.registers)]
         ELSE flagged, LAMBDA restored :
        IF rd = PC_IDX /\ sub_opcode \notin TestOps
        THEN reload_pipeline(restored)
        ELSE IF operand.form # "RegisterShiftedRegister"
             THEN IncrPc(restored)
             ELSE restored)))))

---------------------------------------------------------------------------
(* Block data transfer: src/cpu/opcodes.rs.  The address arithmetic of the *)
(* executor is written with `+` and `-` on u32, which wrap in a release    *)
(* build and abort in a debug build: the executor's model returns the      *)
(* wrapped machine together with `overflowed`, TRUE when one of these      *)
(* operations left the range of u32.                                       *)

\* u16::count_ones
count_ones(rlist) == Cardinality(rlist)

\* u16::trailing_zeros: the position of the lowest set bit, 16 for zero
trailing_zeros(rlist) ==
    IF rlist = {} THEN 16 ELSE CHOOSE i \in rlist : \A j \in rlist : i <= j

\* a - b on u32: the wrapped difference and whether b > a
CheckedSub(a, b) == [value |-> wrapping_sub(a, b), carry |-> ~GreaterEq(a, b)]

\* a value that needed no arithmetic
Exact(a) == [value |-> a, carry |-> FALSE]

\* rb_first_in_rlist
rb_first_in_rlist(rlist, base_register) ==
    IF base_register \in rlist
    THEN (trailing_zeros(rlist) + 1) = base_register
    ELSE FALSE

\* the empty-list adjustment selecting R14 instead of R15
EffectiveRlist_r14(rlist) ==
    IF count_ones(rlist) = 0
    THEN [rlist |-> {14}, words_to_transfer |-> 1]
    ELSE [rlist |-> rlist, words_to_transfer |-> count_ones(rlist)]

\* the register list and the word count after the empty-list adjustment
EffectiveRlist(rlist) ==
    IF count_ones(rlist) = 0
    THEN [rlist |-> {15}, words_to_transfer |-> 1]
    ELSE [rlist |-> rlist, words_to_transfer |-> count_ones(rlist)]

\* StartAddress that lowers the base by the whole block for every
\* decrementing transfer
StartAddress_whole_block(m, base_register, pre_increment, increment, words_to_transfer) ==
    IF increment
    THEN IF pre_increment
         THEN overflowing_add(Reg(m, base_register), {2})
         ELSE Exact(Reg(m, base_register))
    ELSE CheckedSub(Reg(m, base_register), U32(0, words_to_transfer * 4))

\* the address of the first transfer
StartAddress(m, base_register, pre_increment, increment, words_to_transfer) ==
    Bind(IF increment
         THEN Exact(Reg(m, base_register))
         ELSE CheckedSub(Reg(m, base_register), U32(0, (words_to_transfer - 1) * 4)),
         LAMBDA lowest :
    Bind(IF pre_increment
         THEN IF increment
              THEN overflowing_add(lowest.value, {2})
              ELSE CheckedSub(lowest.value, {2})
         ELSE Exact(lowest.value), LAMBDA first :
        [value |-> first.value, carry |-> lowest.carry \/ first.carry]))

\* TransferRegister that leaves the access kind as it was
TransferRegister_same_access(st0, i, d) ==
    Bind(st0, LAMBDA st :
    Bind(IF d.transfer_type = "STM"
         THEN Bind(IF i = d.base_register /\ ~d.rb_first_in_rlist
                   THEN overflowing_add(Reg(st.m, i), U32(0, d.words_to_transfer * 4))
                   ELSE Exact(Reg(st.m, i)), LAMBDA data :
                  [m |-> [st.m EXCEPT !.bus = write_word(@, st.base_address, data.value,
                                                        st.m.cpu.next_access)],
                   carry |-> data.carry])
         ELSE Bind(read_word(st.m.bus, st.base_address, st.m.cpu.next_access), LAMBDA rd :
                  [m |-> SetReg([st.m EXCEPT !.bus = rd.bus], i, rd.value),
                   carry |-> FALSE]), LAMBDA moved :
    Bind(overflowing_add(st.base_address, {2}), LAMBDA next :
        [m            |-> IF i = PC_IDX /\ d.transfer_type = "LDM"
                          THEN reload_pipeline(moved.m)
                          ELSE moved.m,
         base_address |-> next.value,
         overflowed   |-> st.overflowed \/ moved.carry \/ next.carry])))

\* TransferRegister that never reloads the pipeline
TransferRegister_no_reload(st0, i, d) ==
    Bind(st0, LAMBDA st :
    Bind(IF d.transfer_type = "STM"
         THEN Bind(IF i = d.base_register /\ ~d.rb_first_in_rlist
                   THEN overflowing_add(Reg(st.m, i), U32(0, d.words_to_transfer * 4))
                   ELSE Exact(Reg(st.m, i)), LAMBDA data :
                  [m |-> [st.m EXCEPT !.bus = write_word(@, st.base_address, data.value,
                                                        st.m.cpu.next_access)],
                   carry |-> data.carry])
         ELSE Bind(read_word(st.m.bus, st.base_address, st.m.cpu.next_access), LAMBDA rd :
                  [m |-> SetReg([st.m EXCEPT !.bus = rd.bus], i, rd.value),
                   carry |-> FALSE]), LAMBDA moved :
    Bind(overflowing_add(st.base_address, {2}), LAMBDA next :
        [m            |-> SetAccess(moved.m, ACCESS_SEQ),
         base_address |-> next.value,
         overflowed   |-> st.overflowed \/ moved.carry \/ next.carry])))

\* the body of the loop for a register i of the list: st is the machine, the
\* running address and whether an operation has overflowed so far
TransferRegister(st0, i, d) ==
    Bind(st0, LAMBDA st :
    Bind(IF d.transfer_type = "STM"
         THEN Bind(IF i = d.base_register /\ ~d.rb_first_in_rlist
                   THEN overflowing_add(Reg(st.m, i), U32(0, d.words_to_transfer * 4))
                   ELSE Exact(Reg(st.m, i)), LAMBDA data :
                  [m |-> [st.m EXCEPT !.bus = write_word(@, st.base_address, data.value,
                                                        st.m.cpu.next_access)],
                   carry |-> data.carry])
         ELSE Bind(read_word(st.m.bus, st.base_address, st.m.cpu.next_access), LAMBDA rd :
                  [m |-> SetReg([st.m EXCEPT !.bus = rd.bus], i, rd.value),
                   carry |-> FALSE]), LAMBDA moved :
    Bind(overflowing_add(st.base_address, {2}), LAMBDA next :
    Bind(SetAccess(moved.m, ACCESS_SEQ), LAMBDA seq :
        [m            |-> IF i = PC_IDX /\ d.transfer_type = "LDM"
                          THEN reload_pipeline(seq)
                          ELSE seq,
         base_address |-> next.value,
         overflowed   |-> st.overflowed \/ moved.carry \/ next.carry]))))

\* for i in 0..16: registers outside the list are skipped
RECURSIVE TransferFrom(_, _, _)
TransferFrom(st, i, d) ==
    IF i = 16
    THEN st
    ELSE IF i \notin d.rlist
         THEN TransferFrom(st, i + 1, d)
         ELSE Bind(TransferRegister(st, i, d), LAMBDA after : TransferFrom(after, i + 1, d))

\* execute_block_data_transfer that writes the base back whenever the
\* writeback bit is set
execute_block_data_transfer_always_writeback(m0, base_register, transfer_type, pre_increment, increment, psr_n_force_user, write_address_into_base, rlist0) ==
    Bind(IncrPc(m0), LAMBDA m1 :
    Bind(EffectiveRlist(rlist0), LAMBDA e :
    Bind([base_register     |-> base_register,
          transfer_type     |-> transfer_type,
          rlist             |-> e.rlist,
          words_to_transfer |-> e.words_to_transfer,
          rb_first_in_rlist |-> rb_first_in_rlist(e.rlist, base_register)], LAMBDA d :
    Bind(StartAddress(m1, base_register, pre_increment, increment, e.words_to_transfer),
         LAMBDA start :
    Bind(TransferFrom([m            |-> SetAccess(m1, ACCESS_NONSEQ),
                       base_address |-> start.value,
                       overflowed   |-> start.carry], 0, d), LAMBDA done :
        [m          |-> IF write_address_into_base
                        THEN SetReg(done.m, base_register, done.base_address)
                        ELSE done.m,
         overflowed |-> done.overflowed])))))

\* execute_block_data_transfer: the machine afterwards and `overflowed`
execute_block_data_transfer(m0, base_register, transfer_type, pre_increment, increment, psr_n_force_user, write_address_into_base, rlist0) ==
    Bind(IncrPc(m0), LAMBDA m1 :
    Bind(EffectiveRlist(rlist0), LAMBDA e :
    Bind([base_register     |-> base_register,
          transfer_type     |-> transfer_type,
          rlist             |-> e.rlist,
          words_to_transfer |-> e.words_to_transfer,
          rb_first_in_rlist |-> rb_first_in_rlist(e.rlist, base_register)], LAMBDA d :
    Bind(StartAddress(m1, base_register, pre_increment, increment, e.words_to_transfer),
         LAMBDA start :
    Bind(TransferFrom([m            |-> SetAccess(m1, ACCESS_NONSEQ),
                       base_address |-> start.value,
                       overflowed   |-> start.carry], 0, d), LAMBDA done :
        [m          |-> IF write_address_into_base
                           /\ ~(transfer_type = "LDM" /\ base_register \in e.rlist)
                        THEN SetReg(done.m, base_register, done.base_address)
                        ELSE done.m,
         overflowed |-> done.overflowed])))))

---------------------------------------------------------------------------
(* Fetch, decode, execute: src/cpu/mod.rs                                  *)

\* execute_arm_opcode has an arm for B, BL, BX and DataProcessing
execute_arm_opcode(m, opcode) ==
    CASE opcode.kind = "B"  -> execute_b(m, opcode.offset)
      [] opcode.kind = "BL" -> execute_bl(m, opcode.offset)
      [] opcode.kind = "BX" -> execute_arm_to_thumb_bx(m, opcode.register_idx)
      [] opcode.kind = "DataProcessing" ->
            execute_data_processing(m, opcode.sub_opcode, opcode.rd, opcode.rn,
                                    opcode.operand, opcode.set_flags)
      [] OTHER -> m

\* the head of execute_next_arm: the PC is aligned, slot 1 moves to slot 0
\* and the next word is fetched at the PC into slot 1
Prefetch(m0) ==
    Bind(SetReg(m0, PC_IDX, Reg(m0, PC_IDX) \ {0}), LAMBDA aligned :
    Bind(read_word(aligned.bus, Reg(aligned, PC_IDX), aligned.cpu.next_access), LAMBDA fetch :
        [cpu |-> [aligned.cpu EXCEPT !.pipeline = <<m0.cpu.pipeline[2], fetch.value>>],
         bus |-> fetch.bus]))

\* execute_next_arm without the condition check
execute_next_arm_unconditional(m0) ==
    Bind(m0.cpu.pipeline[1], LAMBDA execute_opcode :
    Bind(Prefetch(m0), LAMBDA fetched :
    Bind(decode_arm_opcode(execute_opcode), LAMBDA opcode :
        IF opcode # None
        THEN execute_arm_opcode(fetched, opcode)
        ELSE fetched)))

\* execute_next_arm skipping a word that does not decode together with the
\* word behind it
execute_next_arm_skip(m0) ==
    Bind(m0.cpu.pipeline[1], LAMBDA execute_opcode :
    Bind(Prefetch(m0), LAMBDA fetched :
    Bind(decode_arm_opcode(execute_opcode), LAMBDA opcode :
        IF opcode # None
        THEN IF check_condition(fetched.cpu.registers, execute_opcode)
             THEN execute_arm_opcode(fetched, opcode)
             ELSE Bind(get_and_incr_pc(fetched.cpu.registers, {2}), LAMBDA pc :
                  Bind(read_word(fetched.bus, pc.res, ACCESS_CODE), LAMBDA rd :
                      [cpu |-> [fetched.cpu EXCEPT !.registers = pc.rf,
                                                   !.next_access = ACCESS_CODE \cup ACCESS_SEQ],
                       bus |-> rd.bus]))
        ELSE [fetched EXCEPT !.cpu.pipeline = <<fetched.cpu.pipeline[2],
                                               fetched.cpu.pipeline[2]>>])))

execute_next_arm(m0) ==
    Bind(m0.cpu.pipeline[1], LAMBDA execute_opcode :
    Bind(Prefetch(m0), LAMBDA fetched :
    Bind(decode_arm_opcode(execute_opcode), LAMBDA opcode :
        IF opcode # None
        THEN IF check_condition(fetched.cpu.registers, execute_opcode)
             THEN execute_arm_opcode(fetched, opcode)
             ELSE Bind(get_and_incr_pc(fetched.cpu.registers, {2}), LAMBDA pc :
                  Bind(read_word(fetched.bus, pc.res, ACCESS_CODE), LAMBDA rd :
                      [cpu |-> [fetched.cpu EXCEPT !.registers = pc.rf,
                                                   !.next_access = ACCESS_CODE \cup ACCESS_SEQ],
                       bus |-> rd.bus]))
        ELSE fetched)))

---------------------------------------------------------------------------
(* The opcode tests of src/cpu/mod.rs: a CPU built from a test state       *)
(* (cpu_with_state), a transaction bus that holds the opcode at base_addr, *)
(* and calls of step.                                                      *)

MaxSteps == 1

\* register contents of the test states: R0..R14 of the user bank
UserRegs ==
    <<U32(0, 0),         U32(0, 1),         U32(65535, 65535), U32(32768, 0),
      U32(32767, 65535), U32(32768, 1),     U32(0, 32),        U32(0, 256),
      U32(0, 33),        U32(4660, 22136),  U32(0, 4),         U32(2048, 291),
      U32(2048, 288),    U32(768, 32512),   U32(2048, 836)>>

\* R8_fiq..R14_fiq
FiqRegs ==
    <<U32(61704, 8), U32(61705, 9), U32(61706, 10), U32(61707, 11),
      U32(61708, 12), U32(61709, 13), U32(61710, 15)>>

\* the register file of a test state in a mode, with flags and a PC
TestRegisters(cpu_mode, flags, pc) ==
    [user_bank     |-> [i \in 0..15 |-> IF i = PC_IDX THEN pc ELSE UserRegs[i + 1]],
     fiq_registers |-> [j \in 0..6 |-> FiqRegs[j + 1]],
     spsr_fiq      |-> {31} \cup CpuMode("User"),
     r13_svc       |-> U32(21267, 1),
     r14_svc       |-> U32(21268, 3),
     spsr_svc      |-> {30, 28} \cup CpuMode("System"),
     r13_abt       |-> U32(43795, 4),
     r14_abt       |-> U32(43796, 5),
     spsr_abt      |-> {29, 7} \cup CpuMode("Supervisor"),
     r13_irq       |-> U32(4883, 6),
     r14_irq       |-> U32(4884, 7),
     spsr_irq      |-> {28, 5} \cup CpuMode("User"),
     r13_und       |-> U32(56083, 20),
     r14_und       |-> U32(56084, 21),
     spsr_und      |-> {31, 28} \cup CpuMode("Fiq"),
     cpsr          |-> flags \cup {7, 6} \cup CpuMode(cpu_mode) \cup CpuState("Arm")]

\* opcode words of the test states
Cond(c) == {i + 28 : i \in Word16(c)}

OpBranch(c, link, offset) ==
    Cond(c) \cup {27, 25} \cup (IF link THEN {24} ELSE {}) \cup offset

OpBx(c, rn) == Cond(c) \cup {24, 21, 19, 18, 17, 16} \cup (8..15) \cup {4} \cup Word16(rn)

OpDataProc(c, sub_opcode, s, rn, rd, operand2) ==
    Cond(c) \cup {i + 21 : i \in Word16(sub_opcode)} \cup (IF s THEN {20} ELSE {})
            \cup {i + 16 : i \in Word16(rn)} \cup {i + 12 : i \in Word16(rd)} \cup operand2

\* operand 2: #nn rotated right by 2 * rot
Op2Imm(rot, nn) == {25} \cup {i + 8 : i \in Word16(rot)} \cup Word16(nn)

\* operand 2: Rm shifted by #amount
Op2RegImm(rm, shift_type, amount) ==
    {i + 7 : i \in Word16(amount)} \cup {i + 5 : i \in Word16(shift_type)} \cup Word16(rm)

\* operand 2: Rm shifted by Rs
Op2RegReg(rm, shift_type, rs) ==
    {i + 8 : i \in Word16(rs)} \cup {i + 5 : i \in Word16(shift_type)} \cup {4} \cup Word16(rm)

AL == 14

BranchOffsets == {U32(0, 2), U32(0, 0), U32(127, 65535), U32(128, 0), U32(255, 65534)}

PcValues == {U32(0, 8), U32(65535, 65528)}

BranchTests ==
    {[cpu_mode |-> cm, flags |-> f, pc |-> pc, opcode |-> OpBranch(c, l, o)] :
        cm \in Modes, f \in {{}, {30}}, pc \in PcValues,
        c \in {AL, 0}, l \in BOOLEAN, o \in BranchOffsets}

BxTests ==
    {[cpu_mode |-> cm, flags |-> {}, pc |-> pc, opcode |-> OpBx(AL, rn)] :
        cm \in Modes, pc \in PcValues, rn \in 0..15}

\* every condition code with every combination of the four flags
ConditionTests ==
    {[cpu_mode |-> "System", flags |-> f, pc |-> U32(0, 8),
      opcode |-> OpBranch(c, FALSE, U32(0, 2))] :
        c \in 0..15, f \in SUBSET {31, 30, 29, 28}}

Operands2 ==
    {Op2Imm(0, 0), Op2Imm(0, 255), Op2Imm(1, 3), Op2Imm(4, 255), Op2Imm(15, 129)}
    \cup {Op2RegImm(rm, t, a) : rm \in {2, 4, 5}, t \in {Lsl, Lsr, Asr, Ror}, a \in {0, 1, 31}}
    \cup {Op2RegReg(5, t, rs) : t \in {Lsl, Lsr, Asr, Ror}, rs \in {0, 6, 7, 8, 10}}

PlainOperands2 ==
    {Op2Imm(0, 0), Op2Imm(0, 255)} \cup {Op2RegImm(rm, Lsl, 0) : rm \in {2, 4, 5}}

\* MOV and MVN have no first operand and are encoded with Rn = 0
FirstOperand(o, rn) == IF o \in {MOV, MVN} THEN 0 ELSE rn

DataProcTests ==
    {[cpu_mode |-> "System", flags |-> f, pc |-> U32(0, 8),
      opcode |-> OpDataProc(AL, o, s, FirstOperand(o, 1), 0, op2)] :
        f \in {{}, {29}, {31, 30, 29, 28}}, o \in 0..15, s \in BOOLEAN, op2 \in Operands2}
    \cup
    {[cpu_mode |-> "System", flags |-> f, pc |-> U32(0, 8),
      opcode |-> OpDataProc(AL, o, s, FirstOperand(o, rn), 0, op2)] :
        f \in {{}, {29}, {31, 30, 29, 28}}, o \in 0..15, s \in BOOLEAN, rn \in {3, 4},
        op2 \in PlainOperands2}
    \cup
    {[cpu_mode |-> cm, flags |-> {29}, pc |-> U32(0, 8),
      opcode |-> OpDataProc(AL, o, s, FirstOperand(o, 1), 15, op2)] :
        cm \in {"System", "Supervisor", "Fiq"}, o \in 0..15, s \in BOOLEAN,
        op2 \in {Op2Imm(0, 255), Op2RegImm(2, Lsl, 0), Op2RegImm(5, Lsr, 0), Op2RegReg(5, Lsr, 6)}}
    \cup
    {[cpu_mode |-> "System", flags |-> {29}, pc |-> U32(0, 8),
      opcode |-> OpDataProc(AL, o, s, FirstOperand(o, rr[1]), rr[2], op2)] :
        o \in 0..15, s \in BOOLEAN, rr \in {<<1, 1>>, <<15, 0>>},
        op2 \in {Op2RegImm(2, Lsl, 0), Op2RegImm(15, Lsr, 0), Op2RegReg(5, Lsl, 10),
                 Op2RegReg(5, Lsl, 15), Op2RegReg(15, Ror, 15)}}

Tests == BranchTests \cup BxTests \cup DataProcTests

\* cpu_with_state
cpu_with_state(t) ==
    [registers   |-> TestRegisters(t.cpu_mode, t.flags, t.pc),
     pipeline    |-> <<t.opcode, wrapping_sub(t.pc, {2})>>,
     next_access |-> ACCESS_CODE \cup ACCESS_SEQ]

\* TransactionSystemBus of a test case: the opcode is at base_addr = PC - 8
TestBus(t) ==
    [opcode       |-> t.opcode,
     base_addr    |-> wrapping_sub(t.pc, {3}),
     transactions |-> <<>>,
     next_index   |-> 0,
     calls        |-> <<>>]

NoStep == [op |-> "none", opcode |-> None, executed |-> FALSE]

\* a test case: the CPU of its initial state and its bus
TestCase(t) ==
    /\ cpu = cpu_with_state(t)
    /\ bus = TestBus(t)
    /\ initial = cpu_with_state(t)
    /\ last = NoStep
    /\ steps = 0
    /\ comm = NoComm

Init == \E t \in Tests : TestCase(t)

InitBranch == \E t \in BranchTests \cup BxTests : TestCase(t)

InitCondition == \E t \in ConditionTests : TestCase(t)

InitDataProc == \E t \in DataProcTests : TestCase(t)

\* what the executor of a data-processing opcode reads: the first operand,
\* the second operand and the carry of the barrel shifter
Operands(m0, opcode) ==
    IF opcode.kind = "DataProcessing"
    THEN Bind(ResolveOperand(Prefetch(m0), opcode.operand), LAMBDA op :
             [operand_a |-> Reg(op.m, opcode.rn),
              operand_b |-> op.operand_b,
              shifted_carry |-> op.shifted_carry])
    ELSE [operand_a |-> {}, operand_b |-> {}, shifted_carry |-> NoCarry]

\* Arm7Cpu::step: one opcode in ARM state; Thumb is todo!() and aborts.
\* bus.calls holds the bus calls of the last step; initial is the CPU before
\* it and last says which opcode was retired and whether it was executed.
step_once ==
    /\ last.op # "panic"
    /\ steps' = steps + 1
    /\ UNCHANGED comm
    /\ initial' = cpu
    /\ IF state(cpu.registers) = "Arm"
       THEN \E m0 \in {[cpu |-> cpu, bus |-> [bus EXCEPT !.calls = <<>>]]} :
            \E m \in {execute_next_arm(m0)} :
            \E opcode \in {decode_arm_opcode(cpu.pipeline[1])} :
                /\ cpu' = m.cpu
                /\ bus' = m.bus
                /\ last' = [op       |-> "step",
                            opcode   |-> opcode,
                            executed |-> opcode # None
                                           /\ check_condition(cpu.registers, cpu.pipeline[1]),
                            operands |-> Operands(m0, opcode)]
       ELSE /\ last' = [op |-> "panic", opcode |-> None, executed |-> FALSE]
            /\ UNCHANGED <<cpu, bus>>

\* step, at most MaxSteps times
step == steps < MaxSteps /\ step_once

\* values written by the register-file operations
WriteValue(n) == U32(43981, 4660 + n)

MaxRegisterOps == 2

InitRegisters ==
    \E cm \in Modes :
        TestCase([cpu_mode |-> cm, flags |-> {}, pc |-> U32(0, 8),
                  opcode |-> OpBranch(AL, FALSE, {})])

\* `registers[i] = v` followed by a read of registers[i]
write_register ==
    /\ steps < MaxRegisterOps
    /\ \E i \in 0..15 :
          LET v  == WriteValue(steps)
              rf == index_mut(cpu.registers, i, v)
          IN  /\ cpu' = [cpu EXCEPT !.registers = rf]
              /\ last' = [op |-> "write", index |-> i, value |-> v, read |-> index(rf, i)]
    /\ initial' = cpu
    /\ steps' = steps + 1
    /\ UNCHANGED comm
    /\ UNCHANGED bus

\* Arm7Cpu::switch_cpu_mode
switch_mode ==
    /\ steps < MaxRegisterOps
    /\ \E cm \in Modes :
          /\ cpu' = switch_cpu_mode(cpu, cm)
          /\ last' = [op |-> "switch", cpu_mode |-> cm]
    /\ initial' = cpu
    /\ steps' = steps + 1
    /\ UNCHANGED comm
    /\ UNCHANGED bus

\* Arm7Cpu::toggle_cpu_state
toggle_state ==
    /\ steps < MaxRegisterOps
    /\ cpu' = toggle_cpu_state(cpu)
    /\ last' = [op |-> "toggle"]
    /\ initial' = cpu
    /\ steps' = steps + 1
    /\ UNCHANGED comm
    /\ UNCHANGED bus

NextRegisters == write_register \/ switch_mode \/ toggle_state

SpecRegisters == InitRegisters /\ [][NextRegisters]_vars

\* LDM/STM opcode words: P = pre-index, U = up, S, W = writeback, L = load
OpBlock(c, p, u, w, l, rn, rlist) ==
    Cond(c) \cup {27} \cup (IF p THEN {24} ELSE {}) \cup (IF u THEN {23} ELSE {})
            \cup (IF w THEN {21} ELSE {}) \cup (IF l THEN {20} ELSE {})
            \cup {i + 16 : i \in Word16(rn)} \cup rlist

BlockBases == {0, 7, 13, 15}

BlockLists == {{}, {15}, {7}, {0, 7}, {7, 8}, {6, 7}, {6, 7, 13}, {13, 14}, {0, 13, 15}}

\* the transactions of the test bus: none, or one word at the address in R13
BlockTransactions == {<<>>, <<[addr |-> U32(768, 32512), data |-> U32(2048, 1024)]>>}

BlockTests ==
    {[cpu_mode |-> cm, flags |-> {}, pc |-> U32(2048, 8),
      opcode |-> OpBlock(AL, p, u, w, l, rn, rlist), transactions |-> tr] :
        cm \in {"System", "Supervisor"}, p \in BOOLEAN, u \in BOOLEAN, w \in BOOLEAN,
        l \in BOOLEAN, rn \in BlockBases, rlist \in BlockLists, tr \in BlockTransactions}

InitBlockTransfer ==
    \E t \in BlockTests :
        /\ cpu = cpu_with_state(t)
        /\ bus = [TestBus(t) EXCEPT !.transactions = t.transactions]
        /\ initial = cpu_with_state(t)
        /\ last = NoStep
        /\ steps = 0
        /\ comm = NoComm

\* execute_block_data_transfer applied to the CPU and the bus with the fields
\* of the LDM/STM word in pipeline slot 0.  When an address computation
\* overflowed the call either aborts (debug build) or carries on with the
\* wrapped value (release build).  last.next_index is the index of the next
\* transaction of the bus before the call.
block_transfer ==
    /\ steps < MaxSteps
    /\ last.op # "panic"
    /\ steps' = steps + 1
    /\ UNCHANGED comm
    /\ initial' = cpu
    /\ \E opcode \in {try_decode_ldm_stm(cpu.pipeline[1])} :
          /\ opcode # None
          /\ \E r \in {execute_block_data_transfer(
                          [cpu |-> cpu, bus |-> [bus EXCEPT !.calls = <<>>]],
                          opcode.base_register, opcode.transfer_type, opcode.pre_increment,
                          opcode.increment, opcode.psr_n_force_user,
                          opcode.write_address_into_base, opcode.rlist)} :
                \/ /\ cpu' = r.m.cpu
                   /\ bus' = r.m.bus
                   /\ last' = [op |-> "block_transfer", opcode |-> opcode,
                               executed |-> TRUE, overflowed |-> r.overflowed,
                               next_index |-> bus.next_index]
                \/ /\ r.overflowed
                   /\ last' = [op |-> "panic", opcode |-> opcode, executed |-> FALSE]
                   /\ UNCHANGED <<cpu, bus>>

NextBlockTransfer == block_transfer

SpecBlockTransfer == InitBlockTransfer /\ [][NextBlockTransfer]_vars

\* The reset scenario: a register file that is all zero in a mode, a bus
\* that holds a word at the reset address 0, and a pipeline that is empty or
\* already holds that word in slot 0.
ResetRegisters(cpu_mode) ==
    [RegisterFile_default EXCEPT !.cpsr = CpuMode(cpu_mode) \cup CpuState("Arm")]

\* B #2, B #0, B #-2, BEQ #2, MOV R0, R0 and a word that is no opcode
ResetWords ==
    {OpBranch(AL, FALSE, U32(0, 2)), OpBranch(AL, FALSE, {}),
     OpBranch(AL, FALSE, U32(255, 65534)), OpBranch(0, FALSE, U32(0, 2)),
     OpDataProc(AL, MOV, FALSE, 0, 0, Op2RegImm(0, Lsl, 0)),
     Cond(AL) \cup {27, 26, 25, 24}}

ResetSlots == {{}, {2}, OpBranch(AL, FALSE, U32(0, 2)), Cond(15) \cup {27, 25}}

InitReset ==
    \E cm \in {"Supervisor", "System"}, word \in ResetWords, slot1 \in ResetSlots,
       access \in {ACCESS_CODE, ACCESS_CODE \cup ACCESS_SEQ} :
    \E slot0 \in {{}, word} :
        /\ cpu = [registers |-> ResetRegisters(cm), pipeline |-> <<slot0, slot1>>,
                  next_access |-> access]
        /\ bus = [opcode |-> word, base_addr |-> {}, transactions |-> <<>>,
                  next_index |-> 0, calls |-> <<>>]
        /\ initial = cpu
        /\ last = NoStep
        /\ steps = 0
        /\ comm = NoComm

\* Arm7Cpu::new: the CPU is replaced by a newly constructed one
construct ==
    /\ steps < MaxSteps
    /\ last.op # "panic"
    /\ cpu' = new
    /\ initial' = cpu
    /\ last' = [op |-> "new", opcode |-> None, executed |-> FALSE]
    /\ steps' = steps + 1
    /\ UNCHANGED comm
    /\ UNCHANGED bus

NextReset == step \/ construct

SpecReset == InitReset /\ [][NextReset]_vars

\* Runs of several steps: the retired word, the word behind it in the
\* pipeline and the word the bus holds at address 0 are chosen separately;
\* R15 starts at 8.
MaxFetchSteps == 3

\* words no decoder accepts: LDR R0, [R0], SWI 0 and MOV R0, R0 with Rn = 1
FetchUndecoded ==
    {Cond(AL) \cup {26, 24, 23, 20}, Cond(AL) \cup {27, 26, 25, 24},
     OpDataProc(AL, MOV, FALSE, 1, 0, Op2RegImm(0, Lsl, 0))}

\* BNV #2, BEQ #2, MOV PC, R1 (R1 = 1), MOVNE R2, R1, BXNE R11,
\* LDMNEIA R13!, {R0, R1}, SUBS PC, R1, R2, ADD PC, R1, R5, LSL R10,
\* TEQP R1, R2, CMPP R1, R5, LSL R10 and MOV R2, R5, LSL R10
FetchWords0 ==
    FetchUndecoded \cup
    {OpBranch(15, FALSE, U32(0, 2)), OpBranch(0, FALSE, U32(0, 2)),
     OpDataProc(AL, MOV, FALSE, 0, 15, Op2RegImm(1, Lsl, 0)),
     OpDataProc(1, MOV, FALSE, 0, 2, Op2RegImm(1, Lsl, 0)),
     OpBx(1, 11), OpBlock(1, FALSE, TRUE, TRUE, TRUE, 13, {0, 1}),
     OpDataProc(AL, SUB, TRUE, 1, 15, Op2RegImm(2, Lsl, 0)),
     OpDataProc(AL, ADD, FALSE, 1, 15, Op2RegReg(5, Lsl, 10)),
     OpDataProc(AL, TEQ, TRUE, 1, 15, Op2RegImm(2, Lsl, 0)),
     OpDataProc(AL, CMP, TRUE, 1, 15, Op2RegReg(5, Lsl, 10)),
     OpDataProc(AL, MOV, FALSE, 0, 2, Op2RegReg(5, Lsl, 10))}

\* B #2, MOV R2, R1, BLNV #2, SWI 0
FetchWords1 ==
    {OpBranch(AL, FALSE, U32(0, 2)), OpDataProc(AL, MOV, FALSE, 0, 2, Op2RegImm(1, Lsl, 0)),
     OpBranch(15, TRUE, U32(0, 2)), Cond(AL) \cup {27, 26, 25, 24}}

\* BNV #2, SWI 0, BEQ #2, MOV R0, R1, TEQP R1, R2
FetchBusWords ==
    {OpBranch(15, FALSE, U32(0, 2)), Cond(AL) \cup {27, 26, 25, 24},
     OpBranch(0, FALSE, U32(0, 2)), OpDataProc(AL, MOV, FALSE, 0, 0, Op2RegImm(1, Lsl, 0)),
     OpDataProc(AL, TEQ, TRUE, 1, 15, Op2RegImm(2, Lsl, 0))}

InitFetch ==
    \E cm \in {"System", "Fiq", "Supervisor"}, f \in {{}, {30}},
       slot0 \in FetchWords0, slot1 \in FetchWords1, word \in FetchBusWords :
        /\ cpu = [registers   |-> TestRegisters(cm, f, U32(0, 8)),
                  pipeline    |-> <<slot0, slot1>>,
                  next_access |-> ACCESS_CODE \cup ACCESS_SEQ]
        /\ bus = [opcode |-> word, base_addr |-> {}, transactions |-> <<>>,
                  next_index |-> 0, calls |-> <<>>]
        /\ initial = cpu
        /\ last = NoStep
        /\ steps = 0
        /\ comm = NoComm

\* step, at most MaxFetchSteps times
fetch_step == steps < MaxFetchSteps /\ step_once

NextFetch == fetch_step

SpecFetch == InitFetch /\ [][NextFetch]_vars

\* Operations that resolve the mode, on a CPSR whose five mode bits hold any
\* of the 32 patterns.  mode() unwraps the result of try_from: on Err(()) the
\* call panics, the operation returns nothing and the run is over.
InitModeBits ==
    \E bits \in SUBSET (0..4), st \in {"Arm", "Thumb"}, f \in {{31, 29}} :
        /\ cpu = [registers   |-> [TestRegisters("System", f, U32(0, 8)) EXCEPT
                                      !.cpsr = f \cup {7, 6} \cup CpuState(st) \cup bits],
                  pipeline    |-> <<{}, {}>>,
                  next_access |-> ACCESS_CODE]
        /\ bus = [opcode |-> {}, base_addr |-> {}, transactions |-> <<>>,
                  next_index |-> 0, calls |-> <<>>]
        /\ initial = cpu
        /\ last = NoStep
        /\ steps = 0
        /\ comm = NoComm

\* the part every operation on the register file shares
RegisterOp ==
    /\ steps < MaxRegisterOps
    /\ last.op # "panic"
    /\ initial' = cpu
    /\ steps' = steps + 1
    /\ UNCHANGED comm
    /\ UNCHANGED bus

Panic(call) ==
    /\ last' = [op |-> "panic", call |-> call]
    /\ UNCHANGED cpu

\* registers.mode()
read_mode ==
    /\ RegisterOp
    /\ IF mode(cpu.registers) = "Err"
       THEN Panic("mode")
       ELSE /\ last' = [op |-> "mode", result |-> mode(cpu.registers)]
            /\ UNCHANGED cpu

\* registers[i]
read_index ==
    /\ RegisterOp
    /\ \E i \in 0..15 :
          IF mode(cpu.registers) = "Err"
          THEN Panic("index")
          ELSE /\ last' = [op |-> "index", index |-> i, result |-> index(cpu.registers, i)]
               /\ UNCHANGED cpu

\* registers[i] = v
write_index ==
    /\ RegisterOp
    /\ \E i \in 0..15 :
          IF mode(cpu.registers) = "Err"
          THEN Panic("index_mut")
          ELSE /\ last' = [op |-> "index_mut", index |-> i, value |-> WriteValue(steps)]
               /\ cpu' = [cpu EXCEPT !.registers = index_mut(@, i, WriteValue(steps))]

\* registers.spsr_moded()
read_spsr_moded ==
    /\ RegisterOp
    /\ IF mode(cpu.registers) = "Err"
       THEN Panic("spsr_moded")
       ELSE /\ last' = [op |-> "spsr_moded", result |-> spsr_moded(cpu.registers)]
            /\ UNCHANGED cpu

NextModeBits == read_mode \/ read_index \/ write_index \/ read_spsr_moded

SpecModeBits == InitModeBits /\ [][NextModeBits]_vars

\* The decoders applied to words: every value of bits 27..20, with the
\* register fields, bits 11..8 and bits 7..4 drawn from the values the
\* decoders tell apart, under condition AL.
DecodeWords ==
    {Cond(AL) \cup high \cup {i + 16 : i \in Word16(rn)} \cup {i + 12 : i \in Word16(rd)}
              \cup {i + 8 : i \in Word16(rs)} \cup {i + 4 : i \in Word16(mid)} \cup {3, 2, 1} :
        high \in SUBSET (20..27), rn \in {0, 1, 15}, rd \in {0, 1, 5, 14, 15},
        rs \in {0, 15}, mid \in {0, 1, 3, 9, 15}}

InitDecode ==
    \E word \in DecodeWords :
        /\ cpu = [registers |-> RegisterFile_default, pipeline |-> <<word, {}>>,
                  next_access |-> ACCESS_CODE]
        /\ bus = [opcode |-> word, base_addr |-> {}, transactions |-> <<>>,
                  next_index |-> 0, calls |-> <<>>]
        /\ initial = cpu
        /\ last = NoStep
        /\ steps = 0
        /\ comm = NoComm

\* decode_arm_opcode and each of its four decoders applied to the word in
\* pipeline slot 0
decode ==
    /\ steps < MaxSteps
    /\ \E word \in {cpu.pipeline[1]} :
          last' = [op              |-> "decode",
                   word            |-> word,
                   b_bl            |-> try_decode_b_bl(word),
                   bx              |-> try_decode_bx(word),
                   data_processing |-> try_decode_data_processing(word),
                   ldm_stm         |-> try_decode_ldm_stm(word),
                   opcode          |-> decode_arm_opcode(word)]
    /\ initial' = cpu
    /\ steps' = steps + 1
    /\ UNCHANGED comm
    /\ UNCHANGED <<cpu, bus>>

NextDecode == decode

SpecDecode == InitDecode /\ [][NextDecode]_vars

\* The PC advance of a register-shifted operand, `cpu.registers[PC_IDX] += 4`,
\* is written with `+=` on u32: it wraps in a release build and aborts in a
\* debug build.  Test states with R15 at the top of the address space, and
\* LDM/STM words whose address arithmetic leaves the range of u32.
OverflowPcs == {U32(65535, 65532), U32(65535, 65528), U32(0, 8)}

OverflowTests ==
    {[cpu_mode |-> "System", flags |-> {29}, pc |-> pc,
      opcode |-> OpDataProc(c, o, s, FirstOperand(o, 1), rd, op2)] :
        pc \in OverflowPcs, c \in {AL, 0}, o \in {ADD, MOV, CMP}, s \in {TRUE}, rd \in {0, 15},
        op2 \in {Op2Imm(0, 255), Op2RegImm(2, Lsl, 1), Op2RegReg(5, Lsl, 10),
                 Op2RegReg(15, Lsr, 6)}}
    \cup
    {[cpu_mode |-> "System", flags |-> {}, pc |-> U32(2048, 8),
      opcode |-> OpBlock(AL, p, u, w, l, rn, rlist)] :
        p \in BOOLEAN, u \in BOOLEAN, w \in BOOLEAN, l \in BOOLEAN, rn \in {0, 2, 7},
        rlist \in {{7}, {0, 7}, {2, 7, 8}}}

InitOverflow ==
    \E t \in OverflowTests :
        /\ cpu = cpu_with_state(t)
        /\ bus = TestBus(t)
        /\ initial = cpu_with_state(t)
        /\ last = NoStep
        /\ steps = 0
        /\ comm = NoComm

\* whether the step of machine m0 executes `cpu.registers[PC_IDX] += 4` with a
\* sum that leaves the range of u32
PcAdvanceOverflows(m0) ==
    Bind(decode_arm_opcode(m0.cpu.pipeline[1]), LAMBDA opcode :
        /\ opcode # None
        /\ opcode.kind = "DataProcessing"
        /\ opcode.operand.form = "RegisterShiftedRegister"
        /\ check_condition(m0.cpu.registers, m0.cpu.pipeline[1])
        /\ overflowing_add(Reg(Prefetch(m0), PC_IDX), {2}).carry)

\* Arm7Cpu::step where the PC advance of a register-shifted operand may abort
checked_step ==
    /\ steps < MaxSteps
    /\ \/ step_once
       \/ /\ last.op # "panic"
          /\ state(cpu.registers) = "Arm"
          /\ PcAdvanceOverflows([cpu |-> cpu, bus |-> bus])
          /\ steps' = steps + 1
          /\ UNCHANGED comm
          /\ initial' = cpu
          /\ last' = [op |-> "panic", opcode |-> decode_arm_opcode(cpu.pipeline[1]),
                      executed |-> FALSE]
          /\ UNCHANGED <<cpu, bus>>

NextOverflow == checked_step \/ block_transfer

SpecOverflow == InitOverflow /\ [][NextOverflow]_vars

\* Runs of several steps from the states of the opcode tests: the pipeline
\* holds the opcode and the word behind it as the test bus holds them at
\* R15 - 8 and R15 - 4.
CoherentTests ==
    {[cpu_mode |-> cm, flags |-> f, pc |-> pc, opcode |-> word] :
        cm \in {"System", "Supervisor"}, f \in {{}, {30}}, pc \in PcValues,
        word \in FetchWords0 \cup FetchWords1}

InitCoherent == \E t \in CoherentTests : TestCase(t)

SpecCoherent == InitCoherent /\ [][NextFetch]_vars

\* test cases whose opcode no decoder accepts
UndecodedTests ==
    {[cpu_mode |-> cm, flags |-> f, pc |-> U32(0, 8), opcode |-> word] :
        cm \in {"System", "Supervisor"}, f \in {{}, {30}, {31, 30, 29, 28}},
        word \in FetchUndecoded}

InitStatus == \E t \in Tests \cup UndecodedTests : TestCase(t)

\* MOV, MOVS, ADD and ADDS R0 with Rm shifted by Rs: the low bytes of R0..R14
\* are 0, 1, 255, 0, 255, 1, 32, 0, 33, 120, 4, 35, 32, 0 and 68
ShiftTests ==
    {[cpu_mode |-> "System", flags |-> f, pc |-> U32(0, 8),
      opcode |-> OpDataProc(AL, o, s, FirstOperand(o, 1), 0, Op2RegReg(rm, t, rs))] :
        f \in {{}, {29}}, o \in {MOV, ADD}, s \in BOOLEAN, rm \in {1, 3, 4, 5, 9},
        t \in {Lsl, Lsr, Asr, Ror}, rs \in 0..14}

InitShift == \E t \in ShiftTests : TestCase(t)

\* Runs from the reset state over a bus that answers every fetch of a step
\* with a word of its own choosing.
MaxRunSteps == 5

\* MOV R1, #1, BX R1, MOVS PC, R1, TEQP R1, R2, B #-2, SWI 0 and
\* LDMIA R13!, {R0, R1}
RunWords ==
    {OpDataProc(AL, MOV, FALSE, 0, 1, Op2Imm(0, 1)), OpBx(AL, 1),
     OpDataProc(AL, MOV, TRUE, 0, 15, Op2RegImm(1, Lsl, 0)),
     OpDataProc(AL, TEQ, TRUE, 1, 15, Op2RegImm(2, Lsl, 0)),
     OpBranch(AL, FALSE, U32(255, 65534)), Cond(AL) \cup {27, 26, 25, 24},
     OpBlock(AL, FALSE, TRUE, TRUE, TRUE, 13, {0, 1})}

\* the CPU as constructed and a bus that has not been read
InitRun ==
    /\ cpu = new
    /\ bus = [opcode |-> {}, base_addr |-> {}, transactions |-> <<>>,
              next_index |-> 0, calls |-> <<>>]
    /\ initial = new
    /\ last = NoStep
    /\ steps = 0
    /\ comm = NoComm

\* Gba::step: Arm7Cpu::step over a bus that holds any of RunWords at the
\* address the step fetches from
run_step ==
    /\ steps < MaxRunSteps
    /\ last.op # "panic"
    /\ steps' = steps + 1
    /\ UNCHANGED comm
    /\ initial' = cpu
    /\ IF state(cpu.registers) = "Arm"
       THEN \E word \in RunWords :
            \E m0 \in {[cpu |-> cpu,
                        bus |-> [bus EXCEPT !.opcode = word,
                                            !.base_addr = cpu.registers.user_bank[PC_IDX] \ {0, 1},
                                            !.calls = <<>>]]} :
            \E m \in {execute_next_arm(m0)} :
            \E opcode \in {decode_arm_opcode(cpu.pipeline[1])} :
                /\ cpu' = m.cpu
                /\ bus' = m.bus
                /\ last' = [op       |-> "step",
                            opcode   |-> opcode,
                            executed |-> opcode # None
                                           /\ check_condition(cpu.registers, cpu.pipeline[1]),
                            operands |-> Operands(m0, opcode)]
       ELSE /\ last' = [op |-> "panic", opcode |-> None, executed |-> FALSE]
            /\ UNCHANGED <<cpu, bus>>

NextRun == run_step

SpecRun == InitRun /\ [][NextRun]_vars

---------------------------------------------------------------------------
(* The user interface and the emulation thread: src/ui/mod.rs and          *)
(* src/ui/emulation_thread.rs.  comm holds the position of the UI thread   *)
(* (ui), the position of the emulation thread (thread), the command a      *)
(* sender is blocked with on the rendezvous channel (cmd), the command the *)
(* emulation thread has received and is working on (job), the updates in   *)
(* the unbounded channel (emu), whether ctx.gba is Some (gba), and counts  *)
(* of the LoadRom commands received and of the updates produced.           *)

\* the number of times the user opens a ROM
MaxLoads == 2

\* ROM files: whether the file can be read, its length in bytes and whether
\* its header passes parse_header
RomFiles ==
    {[readable |-> r, len |-> n, header_ok |-> h] :
        r \in BOOLEAN, n \in {0, 191, 192, 4096}, h \in BOOLEAN}

\* Gamepak::new and Gamepak::build_rom: reading the file may fail, the slice
\* rom[..0xC0] aborts for a file shorter than 0xC0 bytes, parse_header may
\* reject the header
Gamepak_new(rom) ==
    IF ~rom.readable THEN "Err"
    ELSE IF rom.len < 192 THEN "panic"
    ELSE IF ~rom.header_ok THEN "Err"
    ELSE "Ok"

\* Gba::new: the gamepak, then the BIOS file
Gba_new(rom, bios_readable) ==
    IF Gamepak_new(rom) # "Ok" THEN Gamepak_new(rom)
    ELSE IF ~bios_readable THEN "Err"
    ELSE "Ok"

\* EmuCommCtx::new: both threads run, the emulation thread waits in recv(),
\* both channels are empty
EmuCommCtx_new ==
    [ui |-> "idle", thread |-> "recv", cmd |-> [kind |-> "none"], job |-> [kind |-> "none"],
     emu |-> <<>>, gba |-> FALSE, received |-> 0, produced |-> 0, loads |-> 0]

InitComm ==
    /\ cpu = new
    /\ bus = [opcode |-> {}, base_addr |-> {}, transactions |-> <<>>,
              next_index |-> 0, calls |-> <<>>]
    /\ initial = new
    /\ last = NoStep
    /\ steps = 0
    /\ comm = EmuCommCtx_new

\* GbaUi::send_command: the UI blocks in cmd_send.send(command)
send_command(command) == [comm EXCEPT !.ui = "sending", !.cmd = command]

\* show_main_menu, File / Open: the user picked a ROM file
ui_open ==
    /\ comm.ui = "idle"
    /\ comm.loads < MaxLoads
    /\ \E rom \in RomFiles, bios_readable \in BOOLEAN :
          comm' = [send_command([kind |-> "LoadRom", rom |-> rom, bios |-> bios_readable])
                       EXCEPT !.loads = @ + 1]
    /\ UNCHANGED <<cpu, bus, initial, last, steps>>

\* GbaUi::update: the updates in the channel are taken with try_recv and
\* shown
ui_update ==
    /\ comm.ui = "idle"
    /\ comm.emu # <<>>
    /\ comm' = [comm EXCEPT !.emu = <<>>]
    /\ UNCHANGED <<cpu, bus, initial, last, steps>>

\* GbaUi::on_exit, first statement: send_command(Exit)
ui_on_exit ==
    /\ comm.ui = "idle"
    /\ comm' = send_command([kind |-> "Exit"])
    /\ UNCHANGED <<cpu, bus, initial, last, steps>>

\* cmd_send.send(..).unwrap() when the receiver is gone: send returns Err
\* and the UI thread aborts
ui_send_fails ==
    /\ comm.ui = "sending"
    /\ comm.thread = "panicked"
    /\ comm' = [comm EXCEPT !.ui = "panicked", !.cmd = [kind |-> "none"]]
    /\ UNCHANGED <<cpu, bus, initial, last, steps>>

\* GbaUi::on_exit, second statement: join returns when the thread is done
ui_join ==
    /\ comm.ui = "joining"
    /\ comm.thread = "terminated"
    /\ comm' = [comm EXCEPT !.ui = "exited"]
    /\ UNCHANGED <<cpu, bus, initial, last, steps>>

\* emulation_thread: cmd_recv.recv() meets a blocked sender.  LoadRom goes
\* on to Gba::new; Exit takes ctx.gba and breaks out of the loop, and the
\* thread function returns.
thread_recv ==
    /\ comm.thread = "recv"
    /\ comm.ui = "sending"
    /\ IF comm.cmd.kind = "LoadRom"
       THEN comm' = [comm EXCEPT !.thread = "loading", !.ui = "idle",
                                 !.job = comm.cmd, !.cmd = [kind |-> "none"],
                                 !.received = @ + 1]
       ELSE comm' = [comm EXCEPT !.thread = "terminated", !.ui = "joining",
                                 !.gba = FALSE, !.cmd = [kind |-> "none"]]
    /\ UNCHANGED <<cpu, bus, initial, last, steps>>

\* emulation_thread, the LoadRom arm: Gba::new, then one update on the
\* update channel and the next recv(); an abort inside Gba::new unwinds the
\* thread and drops its ends of both channels
thread_load ==
    /\ comm.thread = "loading"
    /\ \E result \in {Gba_new(comm.job.rom, comm.job.bios)} :
          comm' = CASE result = "Ok" ->
                         [comm EXCEPT !.thread = "recv", !.gba = TRUE, !.job = [kind |-> "none"],
                                      !.emu = Append(@, "LoadSuccess"),
                                      !.produced = @ + 1]
                    [] result = "Err" ->
                         [comm EXCEPT !.thread = "recv", !.gba = FALSE, !.job = [kind |-> "none"],
                                      !.emu = Append(@, "LoadError"),
                                      !.produced = @ + 1]
                    [] result = "panic" ->
                         [comm EXCEPT !.thread = "panicked"]
    /\ UNCHANGED <<cpu, bus, initial, last, steps>>

NextComm ==
    \/ ui_open \/ ui_update \/ ui_on_exit \/ ui_send_fails \/ ui_join
    \/ thread_recv \/ thread_load

SpecComm == InitComm /\ [][NextComm]_vars

\* both threads are scheduled: a thread that can take a step takes it
SpecCommFair ==
    /\ SpecComm
    /\ WF_vars(thread_recv) /\ WF_vars(thread_load)
    /\ WF_vars(ui_join) /\ WF_vars(ui_send_fails)

Next == step

Spec == Init /\ [][Next]_vars

SpecBranch == InitBranch /\ [][Next]_vars

SpecCondition == InitCondition /\ [][Next]_vars

SpecDataProc == InitDataProc /\ [][Next]_vars

SpecStatus == InitStatus /\ [][Next]_vars

SpecShift == InitShift /\ [][Next]_vars

---------------------------------------------------------------------------
(* Properties.  Arithmetic in the statements is bit-serial (ripple carry), *)
(* the bus contents are read off the test case, and the banked slot of a   *)
(* register is named mode by mode.                                         *)

RECURSIVE CarryInto(_, _, _, _)
\* the carry into bit i of a + b + cin
CarryInto(a, b, cin, i) ==
    IF i = 0 THEN cin
    ELSE IF Bit(a, i - 1) + Bit(b, i - 1) + CarryInto(a, b, cin, i - 1) >= 2 THEN 1 ELSE 0

\* a + b + cin modulo 2^32
PlusC(a, b, cin) == {i \in Bits32 : (Bit(a, i) + Bit(b, i) + CarryInto(a, b, cin, i)) % 2 = 1}

Plus(a, b) == PlusC(a, b, 0)

\* a - b modulo 2^32
Minus(a, b) == PlusC(a, Bits32 \ b, 1)

\* the words 4 and 8
W4 == {2}
W8 == {3}

\* the word the bus holds at an address
MemWord(addr) == IF addr \ {0, 1} = bus.base_addr THEN bus.opcode ELSE addr \ {0, 1}

\* the half word the bus holds at an address
MemHalf(addr) ==
    (IF addr \ {0} = bus.base_addr THEN bus.opcode ELSE addr \ {0}) \cap Bits16

\* the mode of a valid CPSR
ModeOf(cpsr) == CHOOSE m \in Modes : cpsr \cap (0..4) = CpuMode(m)

\* the register file with the physical slot that index i names in mode m set to v
WithSlot(rf, m, i, v) ==
    IF m = "Fiq" /\ i \in 8..14 THEN [rf EXCEPT !.fiq_registers[i - 8] = v]
    ELSE IF m = "Supervisor" /\ i = 13 THEN [rf EXCEPT !.r13_svc = v]
    ELSE IF m = "Supervisor" /\ i = 14 THEN [rf EXCEPT !.r14_svc = v]
    ELSE IF m = "Abort" /\ i = 13 THEN [rf EXCEPT !.r13_abt = v]
    ELSE IF m = "Abort" /\ i = 14 THEN [rf EXCEPT !.r14_abt = v]
    ELSE IF m = "Irq" /\ i = 13 THEN [rf EXCEPT !.r13_irq = v]
    ELSE IF m = "Irq" /\ i = 14 THEN [rf EXCEPT !.r14_irq = v]
    ELSE IF m = "Undefined" /\ i = 13 THEN [rf EXCEPT !.r13_und = v]
    ELSE IF m = "Undefined" /\ i = 14 THEN [rf EXCEPT !.r14_und = v]
    ELSE [rf EXCEPT !.user_bank[i] = v]

\* the value of the physical slot that index i names in mode m
SlotValue(rf, m, i) ==
    IF m = "Fiq" /\ i \in 8..14 THEN rf.fiq_registers[i - 8]
    ELSE IF m = "Supervisor" /\ i = 13 THEN rf.r13_svc
    ELSE IF m = "Supervisor" /\ i = 14 THEN rf.r14_svc
    ELSE IF m = "Abort" /\ i = 13 THEN rf.r13_abt
    ELSE IF m = "Abort" /\ i = 14 THEN rf.r14_abt
    ELSE IF m = "Irq" /\ i = 13 THEN rf.r13_irq
    ELSE IF m = "Irq" /\ i = 14 THEN rf.r14_irq
    ELSE IF m = "Undefined" /\ i = 13 THEN rf.r13_und
    ELSE IF m = "Undefined" /\ i = 14 THEN rf.r14_und
    ELSE rf.user_bank[i]

\* a step retired an opcode of this kind and executed it
Executed(kind) == last.op = "step" /\ last.executed /\ last.opcode.kind = kind

\* the PC before the step and the mode before the step
P0 == initial.registers.user_bank[PC_IDX]
Mode0 == ModeOf(initial.registers.cpsr)

\* the target of a branch with a 24-bit offset: P + sign_extend(O) * 4
BranchTarget(P, O) ==
    LET extended == IF 23 \in O THEN O \cup (24..31) ELSE O
    IN  Plus(P, {i + 2 : i \in extended} \cap Bits32)

\* the bus calls of a step that fetched at P and reloaded the pipeline with
\* two word reads at T and T + 4
WordReload(T) ==
    /\ Len(bus.calls) = 3
    /\ bus.calls[1].kind = "read_word" /\ bus.calls[1].addr = P0
    /\ bus.calls[2].kind = "read_word" /\ bus.calls[2].addr = T
    /\ bus.calls[3].kind = "read_word" /\ bus.calls[3].addr = Plus(T, W4)
    /\ cpu.pipeline = <<MemWord(T), MemWord(Plus(T, W4))>>
    /\ cpu.registers.user_bank[PC_IDX] = Plus(T, W8)

\* the same with two half-word reads at T and T + 2
HalfReload(T) ==
    /\ Len(bus.calls) = 3
    /\ bus.calls[1].kind = "read_word" /\ bus.calls[1].addr = P0
    /\ bus.calls[2].kind = "read_half_word" /\ bus.calls[2].addr = T
    /\ bus.calls[3].kind = "read_half_word" /\ bus.calls[3].addr = Plus(T, {1})
    /\ cpu.pipeline = <<MemHalf(T), MemHalf(Plus(T, {1}))>>
    /\ cpu.registers.user_bank[PC_IDX] = Plus(T, W4)

\* C1: for every condition code and every combination of the Z, C, V, N
\* flags, check_condition gives EQ=Z, NE=!Z, CS=C, CC=!C, MI=N, PL=!N, VS=V,
\* VC=!V, HI=C&&!Z, LS=!C||Z, GE=(N==V), LT=(N!=V), GT=!Z&&(N==V),
\* LE=Z||(N!=V), AL=true, NV=false; the opcode is executed exactly then.
ConditionTable(code, z, c, v, n) ==
    \/ code = 0  /\ z
    \/ code = 1  /\ ~z
    \/ code = 2  /\ c
    \/ code = 3  /\ ~c
    \/ code = 4  /\ n
    \/ code = 5  /\ ~n
    \/ code = 6  /\ v
    \/ code = 7  /\ ~v
    \/ code = 8  /\ c /\ ~z
    \/ code = 9  /\ (~c \/ z)
    \/ code = 10 /\ (n <=> v)
    \/ code = 11 /\ ~(n <=> v)
    \/ code = 12 /\ ~z /\ (n <=> v)
    \/ code = 13 /\ (z \/ ~(n <=> v))
    \/ code = 14

ConditionHolds0 ==
    ConditionTable(Field(initial.pipeline[1], 28, 31),
                   30 \in initial.registers.cpsr, 29 \in initial.registers.cpsr,
                   28 \in initial.registers.cpsr, 31 \in initial.registers.cpsr)

C1_ConditionTruthTable ==
    (last.op = "step" /\ last.opcode.kind = "B") =>
        /\ last.executed <=> ConditionHolds0
        /\ ConditionHolds0 =>
              cpu.registers.user_bank[PC_IDX]
                  = Plus(BranchTarget(P0, last.opcode.offset), W8)
        /\ ~ConditionHolds0 => cpu.registers.user_bank[PC_IDX] = Plus(P0, W4)

\* a branch on GT was taken with N = V = 1 and Z = 0
C1_Witness ==
    /\ last.op = "step" /\ last.opcode.kind = "B"
    /\ Field(initial.pipeline[1], 28, 31) = 12
    /\ initial.registers.cpsr \cap {31, 30, 29, 28} = {31, 28}
    /\ last.executed
    /\ cpu.registers.user_bank[PC_IDX] # Plus(P0, W4)

\* C2: in every mode and for every index 0..15, reading and writing
\* registers[i] resolve to the same physical slot: the FIQ bank for R8..R14
\* in Fiq, the mode's own R13 and R14 in Supervisor, Abort, Irq and
\* Undefined, the user bank otherwise; a write to a banked register changes
\* the value no other mode sees at that index.
Banked(m, i) ==
    \/ m = "Fiq" /\ i \in 8..14
    \/ m \in {"Supervisor", "Abort", "Irq", "Undefined"} /\ i \in {13, 14}

C2_BankedRegisters ==
    /\ \A i \in 0..15 :
          index(cpu.registers, i) = SlotValue(cpu.registers, ModeOf(cpu.registers.cpsr), i)
    /\ last.op = "write" =>
          LET m == ModeOf(initial.registers.cpsr)
              i == last.index
          IN  /\ cpu.registers = WithSlot(initial.registers, m, i, last.value)
              /\ last.read = last.value
              /\ Banked(m, i) =>
                    \A other \in Modes \ {m} :
                        index(switch_cpu_mode(cpu, other).registers, i)
                            = index(switch_cpu_mode(initial, other).registers, i)

\* R13 was written in Abort mode after a switch from another mode, and the
\* user bank still holds the stack pointer it held before
C2_Witness ==
    /\ last.op = "write" /\ last.index = 13
    /\ steps = 2
    /\ ModeOf(cpu.registers.cpsr) = "Abort"
    /\ cpu.registers.r13_abt = last.value
    /\ cpu.registers.user_bank[13] = U32(768, 32512)

\* C3: Branch with R15 = P and offset O reloads the pipeline with exactly two
\* word reads, at T = P + sign_extend(O) * 4 and at T + 4, into slots 0 and 1
\* in that order, and leaves R15 = T + 8; no other register and no status
\* word changes.
C3_BranchTarget ==
    Executed("B") =>
        LET T == BranchTarget(P0, last.opcode.offset)
        IN  /\ WordReload(T)
            /\ cpu.registers = [initial.registers EXCEPT !.user_bank[PC_IDX] = Plus(T, W8)]

\* a backward branch that wraps below address 0 was executed in FIQ mode
C3_Witness ==
    /\ Executed("B")
    /\ 23 \in last.opcode.offset
    /\ Mode0 = "Fiq"
    /\ P0 = U32(0, 8)
    /\ 31 \in cpu.registers.user_bank[PC_IDX]

\* C4: after BranchLink with R15 = P the R14 of the current mode is P - 4,
\* the PC and the pipeline are as for Branch with the same offset, and every
\* other register of every bank is unchanged.
C4_BranchLink ==
    Executed("BL") =>
        LET T == BranchTarget(P0, last.opcode.offset)
        IN  /\ WordReload(T)
            /\ cpu.registers =
                  WithSlot([initial.registers EXCEPT !.user_bank[PC_IDX] = Plus(T, W8)],
                           Mode0, 14, Minus(P0, W4))

\* BranchLink was executed in a mode with its own R14, which is not the R14
\* of the user bank
C4_Witness ==
    /\ Executed("BL")
    /\ Mode0 = "Irq"
    /\ cpu.registers.r14_irq = Minus(P0, W4)
    /\ cpu.registers.user_bank[14] # Minus(P0, W4)

\* C5: BranchExchange on Rn in ARM state: with bit 0 of Rn set the bit is
\* cleared and the state becomes Thumb, otherwise no CPSR bit changes; the
\* pipeline is reloaded from the resulting address A, the first read tagged
\* non-sequential code: two half-word reads at A and A + 2 and R15 = A + 4 in
\* Thumb state, two word reads at A and A + 4 and R15 = A + 8 in ARM state.
C5_BranchExchange ==
    Executed("BX") =>
        LET rn == SlotValue(initial.registers, Mode0, last.opcode.register_idx)
            A  == rn \ {0}
        IN  /\ 0 \in rn  => /\ cpu.registers.cpsr = initial.registers.cpsr \cup {5}
                            /\ HalfReload(A)
            /\ 0 \notin rn => /\ cpu.registers.cpsr = initial.registers.cpsr
                              /\ WordReload(A)
            /\ bus.calls[2].access = {"code"}

\* BranchExchange to an odd address switched to Thumb
C5_Witness ==
    /\ Executed("BX")
    /\ last.opcode.register_idx = 11
    /\ 5 \in cpu.registers.cpsr
    /\ cpu.registers.user_bank[PC_IDX] = U32(2048, 294)

\* C6: after a control-flow discontinuity both pipeline slots are reloaded at
\* the new PC before the step returns, the first reload read tagged
\* non-sequential and the second tagged sequential.
Discontinuity ==
    \/ Executed("B")
    \/ Executed("BL")
    \/ Executed("BX")
    \/ /\ Executed("DataProcessing")
       /\ last.opcode.rd = PC_IDX
       /\ last.opcode.sub_opcode \notin TestOps

C6_ReloadTags ==
    Discontinuity =>
        LET n == Len(bus.calls)
        IN  /\ n >= 2
            /\ bus.calls[n - 1].kind \in {"read_word", "read_half_word"}
            /\ bus.calls[n].kind = bus.calls[n - 1].kind
            /\ "seq" \notin bus.calls[n - 1].access
            /\ "seq" \in bus.calls[n].access

\* the ARM definition of an arithmetic sub-opcode as x + y + cin
ArithOps == {SUB, RSB, ADD, ADC, SBC, RSC, CMP, CMN}

ArithTerms(sub_opcode, a, b, c) ==
    CASE sub_opcode \in {ADD, CMN} -> [x |-> a, y |-> b, cin |-> 0]
      [] sub_opcode = ADC          -> [x |-> a, y |-> b, cin |-> c]
      [] sub_opcode \in {SUB, CMP} -> [x |-> a, y |-> Bits32 \ b, cin |-> 1]
      [] sub_opcode = SBC          -> [x |-> a, y |-> Bits32 \ b, cin |-> c]
      [] sub_opcode = RSB          -> [x |-> b, y |-> Bits32 \ a, cin |-> 1]
      [] sub_opcode = RSC          -> [x |-> b, y |-> Bits32 \ a, cin |-> c]

\* the N, Z, C, V bits of a CPSR
Flags(n, z, c, v) ==
    (IF n THEN {31} ELSE {}) \cup (IF z THEN {30} ELSE {})
        \cup (IF c THEN {29} ELSE {}) \cup (IF v THEN {28} ELSE {})

\* the register file after a data-processing opcode that left the mode and
\* the PC alone: status word, destination and R15 = P + 4
AfterDataProc(cpsr, result) ==
    LET stepped == [initial.registers EXCEPT !.cpsr = cpsr,
                                             !.user_bank[PC_IDX] = Plus(P0, W4)]
    IN  IF last.opcode.sub_opcode \in TestOps
        THEN stepped
        ELSE WithSlot(stepped, Mode0, last.opcode.rd, result)

\* the statement of C7 for the arithmetic sub-opcode that was executed
ArithmeticFlags ==
    LET a == last.operands.operand_a
        b == last.operands.operand_b
        t == ArithTerms(last.opcode.sub_opcode, a, b, Bit(initial.registers.cpsr, 29))
        r == PlusC(t.x, t.y, t.cin)
        c == CarryInto(t.x, t.y, t.cin, 31) + Bit(t.x, 31) + Bit(t.y, 31) >= 2
        v == (31 \in t.x <=> 31 \in t.y) /\ ~(31 \in r <=> 31 \in t.x)
    IN  cpu.registers
            = AfterDataProc((initial.registers.cpsr \ {31, 30, 29, 28})
                                \cup Flags(31 \in r, r = {}, c, v), r)

\* C7 for every destination field, R15 included: ADD with set-flags computes r = (a + b) mod 2^32 into Rd and
\* sets Zero = (r = 0), Sign = bit 31 of r, Carry = (a + b >= 2^32) and
\* Overflow = (a, b of the same sign and r of the opposite sign); ADC, SUB,
\* SBC, RSB, RSC, CMP and CMN write the carry and overflow of their ALU
\* operation in the same way.
C7_ArithmeticFlags_AnyRd ==
    (/\ Executed("DataProcessing")
     /\ last.opcode.sub_opcode \in ArithOps
     /\ last.opcode.set_flags) => ArithmeticFlags

\* C7: for a destination field other than R15, ADD with set-flags writes
\* r = (a + b) mod 2^32 to Rd and sets Zero = (r = 0), Sign = bit 31 of r,
\* Carry = (a + b >= 2^32) and Overflow = (a, b of the same sign and r of the
\* opposite sign); ADC, SUB, SBC, RSB, RSC, CMP and CMN with set-flags write
\* the carry and overflow of their ALU operation to the flags in the same way;
\* nothing else changes but R15, which advances by 4.
C7_ArithmeticFlags ==
    (/\ Executed("DataProcessing")
     /\ last.opcode.sub_opcode \in ArithOps
     /\ last.opcode.set_flags
     /\ last.opcode.rd # PC_IDX) => ArithmeticFlags

\* ADDS R0, R1, R2 with R1 = 1 and R2 = 0xFFFFFFFF gave 0 with Carry and Zero
\* set and Overflow clear
C7_Witness ==
    /\ Executed("DataProcessing")
    /\ last.opcode.sub_opcode = ADD /\ last.opcode.set_flags
    /\ last.opcode.rd = 0
    /\ last.operands.operand_a = {0}
    /\ last.operands.operand_b = Bits32
    /\ cpu.registers.user_bank[0] = {}
    /\ cpu.registers.cpsr \cap {31, 30, 29, 28} = {30, 29}

\* the second operand went through a shift: a rotated immediate, a register
\* shifted by an immediate other than LSL #0, or a register shifted by a
\* register whose low byte is not 0
ShiftOccurred ==
    LET operand == last.opcode.operand
    IN  \/ operand.form = "ShiftedImmediate"
        \/ /\ operand.form = "ImmediateShiftedRegister"
           /\ ~(operand.shift_type = Lsl /\ operand.shift = 0)
        \/ /\ operand.form = "RegisterShiftedRegister"
           /\ SlotValue(initial.registers, Mode0, operand.shift_register) \cap (0..7) # {}

\* the statement of C8 for the logical sub-opcode that was executed
LogicalFlags ==
    /\ (28 \in cpu.registers.cpsr) <=> (28 \in initial.registers.cpsr)
    /\ last.operands.shifted_carry.some <=> ShiftOccurred
    /\ (29 \in cpu.registers.cpsr) <=>
          IF ShiftOccurred THEN last.operands.shifted_carry.carry
                           ELSE 29 \in initial.registers.cpsr

\* C8 for every destination field, R15 included: AND, EOR, TST, TEQ, ORR,
\* MOV, BIC and MVN with set-flags
\* never change Overflow, set Carry to the carry-out of the barrel shifter
\* when a shift occurred and leave it unchanged otherwise; the ALU carry is
\* never written.
C8_LogicalFlags_AnyRd ==
    (/\ Executed("DataProcessing")
     /\ last.opcode.sub_opcode \in LogicalOps
     /\ last.opcode.set_flags) => LogicalFlags

\* C8: for a destination field other than R15, AND, EOR, TST, TEQ, ORR, MOV,
\* BIC and MVN with set-flags leave Overflow unchanged, set Carry to the
\* carry-out of the barrel shifter when a shift occurred and leave Carry
\* unchanged when none occurred (unrotated immediate, register with LSL #0,
\* register-specified shift with amount low byte 0); the ALU carry is never
\* written.
C8_LogicalFlags ==
    (/\ Executed("DataProcessing")
     /\ last.opcode.sub_opcode \in LogicalOps
     /\ last.opcode.set_flags
     /\ last.opcode.rd # PC_IDX) => LogicalFlags

\* MOVS with an unshifted operand kept a set Carry, and ANDS with LSR #1 of
\* an odd register set a clear Carry
C8_Witness ==
    /\ Executed("DataProcessing")
    /\ last.opcode.set_flags /\ last.opcode.rd = 0
    /\ last.opcode.sub_opcode = MOV
    /\ last.opcode.operand.form = "Immediate"
    /\ 29 \in initial.registers.cpsr
    /\ 29 \in cpu.registers.cpsr
    /\ {31, 30, 28} \subseteq initial.registers.cpsr
    /\ cpu.registers.cpsr \cap {31, 30, 28} = {28}

\* an executed data-processing opcode whose second operand is a register
\* shifted by the immediate amount 0 with this shift type
ZeroShift(shift_type) ==
    /\ Executed("DataProcessing")
    /\ last.opcode.operand.form = "ImmediateShiftedRegister"
    /\ last.opcode.operand.shift = 0
    /\ last.opcode.operand.shift_type = shift_type

\* the register the second operand names, read before the step
Rm0 == SlotValue(initial.registers, Mode0, last.opcode.operand.operand_register)

\* what a zero-amount shift must show: the operand and the shifter carry,
\* and through MOV the destination and through a logical S opcode the Carry
ZeroShiftGives(operand_b, c) ==
    /\ last.operands.operand_b = operand_b
    /\ last.operands.shifted_carry = Some(c)
    /\ (last.opcode.sub_opcode = MOV /\ last.opcode.rd # PC_IDX) =>
          SlotValue(cpu.registers, Mode0, last.opcode.rd) = operand_b
    /\ (/\ last.opcode.sub_opcode \in LogicalOps
        /\ last.opcode.set_flags
        /\ last.opcode.rd # PC_IDX) => ((29 \in cpu.registers.cpsr) <=> c)

\* C9: a register operand with immediate shift amount 0 and type LSR gives
\* operand 0 with carry = bit 31 of the register; with type ASR it gives 32
\* copies of bit 31 of the register with carry = bit 31 (a shift by 32).
C9_ZeroAmountLsrAsr ==
    /\ ZeroShift(Lsr) => ZeroShiftGives({}, 31 \in Rm0)
    /\ ZeroShift(Asr) => ZeroShiftGives(IF 31 \in Rm0 THEN Bits32 ELSE {}, 31 \in Rm0)

\* MOVS R0, R5, ASR #0 with R5 = 0x80000001 gave 0xFFFFFFFF and set the Carry
C9_Witness ==
    /\ ZeroShift(Asr)
    /\ last.opcode.sub_opcode = MOV /\ last.opcode.set_flags /\ last.opcode.rd = 0
    /\ last.opcode.operand.operand_register = 5
    /\ 29 \notin initial.registers.cpsr
    /\ cpu.registers.user_bank[0] = Bits32
    /\ 29 \in cpu.registers.cpsr

\* C10: a register operand with immediate shift amount 0 and type ROR is
\* RRX: the register shifted right by one with the current Carry in bit 31,
\* and carry-out = bit 0 of the register.
C10_RorZeroIsRrx ==
    ZeroShift(Ror) =>
        ZeroShiftGives({i - 1 : i \in Rm0 \ {0}}
                           \cup (IF 29 \in initial.registers.cpsr THEN {31} ELSE {}),
                       0 \in Rm0)

\* MOVS R0, R4, ROR #0 with R4 = 0x7FFFFFFF and Carry set gave 0xBFFFFFFF and
\* kept the Carry set from bit 0
C10_Witness ==
    /\ ZeroShift(Ror)
    /\ last.opcode.sub_opcode = MOV /\ last.opcode.set_flags /\ last.opcode.rd = 0
    /\ last.opcode.operand.operand_register = 4
    /\ initial.registers.cpsr \cap {31, 30, 29, 28} = {29}
    /\ cpu.registers.user_bank[0] = Bits32 \ {30}
    /\ 29 \in cpu.registers.cpsr

\* an LDM or STM was applied; Rb0 is the value its base register read
BlockTransfer(kind) == last.op = "block_transfer" /\ last.opcode.transfer_type = kind

Rb0 ==
    IF last.opcode.base_register = PC_IDX
    THEN Plus(P0, W4)
    ELSE SlotValue(initial.registers, Mode0, last.opcode.base_register)

\* the word a data read of the test bus returns at an address: the data of
\* the transaction that was next when the transfer began, if it is for this
\* address
DataWord(addr) ==
    IF /\ last.next_index < Len(bus.transactions)
       /\ bus.transactions[last.next_index + 1].addr = addr \ {0, 1}
    THEN bus.transactions[last.next_index + 1].data
    ELSE addr \ {0, 1}

\* the address of the only slot of a one-word transfer
OneWordSlot ==
    IF last.opcode.pre_increment
    THEN IF last.opcode.increment THEN Plus(Rb0, W4) ELSE Minus(Rb0, W4)
    ELSE Rb0

\* registers R0..R14 other than the base register read what they read before
OthersKept ==
    \A i \in 0..14 :
        i # last.opcode.base_register =>
            SlotValue(cpu.registers, Mode0, i) = SlotValue(initial.registers, Mode0, i)

\* C11: an LDM or STM with an empty register list makes exactly one word
\* transfer, at the slot of a one-register list, and the register of that
\* transfer is R15: STM hands the bus one write of R15 (the address of the
\* opcode plus 12) and nothing else, LDM makes one data read, loads the word
\* into R15 and refills the pipeline from it; R0..R14 are neither loaded nor
\* stored (only the base register may change, by writeback).
C11_EmptyListTransfersR15 ==
    (last.op = "block_transfer" /\ last.opcode.rlist = {}) =>
        /\ Len(bus.calls) >= 1
        /\ bus.calls[1].addr = OneWordSlot
        /\ bus.calls[1].access = ACCESS_NONSEQ
        /\ OthersKept
        /\ cpu.registers.cpsr = initial.registers.cpsr
        /\ BlockTransfer("STM") =>
              /\ Len(bus.calls) = 1
              /\ bus.calls[1].kind = "write_word"
              /\ last.opcode.base_register # PC_IDX => bus.calls[1].data = Plus(P0, W4)
              /\ last.opcode.base_register # PC_IDX =>
                    cpu.registers.user_bank[PC_IDX] = Plus(P0, W4)
        /\ BlockTransfer("LDM") =>
              /\ Len(bus.calls) = 3
              /\ bus.calls[1].kind = "read_word"
              /\ bus.calls[2].kind = "read_word" /\ bus.calls[2].addr = DataWord(OneWordSlot)
              /\ bus.calls[3].kind = "read_word"
              /\ bus.calls[3].addr = Plus(DataWord(OneWordSlot), W4)
              /\ cpu.registers.user_bank[PC_IDX] = Plus(DataWord(OneWordSlot), W8)

C11_Witness ==
    /\ BlockTransfer("LDM")
    /\ last.opcode.rlist = {}
    /\ last.opcode.base_register = 13
    /\ ~last.opcode.write_address_into_base
    /\ cpu.registers.user_bank[PC_IDX] = U32(2048, 1032)

\* the lowest register of a list, and the place of register i among the
\* registers of the list in ascending order
Lowest(rlist) == CHOOSE i \in rlist : \A j \in rlist : i <= j

PlaceOf(rlist, i) == Cardinality({j \in rlist : j <= i})

\* C12: an STM with writeback whose base register is in the register list
\* stores, for the base register, its value before the transfer when it is
\* the lowest register of the list, and the value the base register holds
\* after writeback when it is not the lowest (no address computation of the
\* transfer leaving the range of u32).
C12_StmBaseInList ==
    (/\ BlockTransfer("STM")
     /\ ~last.overflowed
     /\ last.opcode.write_address_into_base
     /\ last.opcode.base_register \in last.opcode.rlist) =>
        LET rb     == last.opcode.base_register
            stored == bus.calls[PlaceOf(last.opcode.rlist, rb)].data
        IN  IF rb = Lowest(last.opcode.rlist)
            THEN stored = Rb0
            ELSE stored = SlotValue(cpu.registers, Mode0, rb)

\* the base register is the lowest of the list and its old value is not stored
C12_LowestBaseNotOriginal ==
    /\ BlockTransfer("STM")
    /\ last.opcode.write_address_into_base
    /\ last.opcode.increment /\ ~last.opcode.pre_increment
    /\ last.opcode.base_register = 7
    /\ last.opcode.rlist = {7, 8}
    /\ bus.calls[1].data = Plus(Rb0, W8)

\* the reset scenario before the last step: registers all zero in Supervisor
\* mode and ARM state, the bus holding B #2 (0xEA000002) at address 0
B2 == {31, 30, 29, 27, 25, 1}

ResetScenario ==
    /\ last.op = "step"
    /\ initial.registers = ResetRegisters("Supervisor")
    /\ bus.opcode = B2
    /\ bus.base_addr = {}

ReloadAt8AndC ==
    /\ cpu.registers.user_bank[PC_IDX] = {4}
    /\ Len(bus.calls) = 3
    /\ bus.calls[2].kind = "read_word" /\ bus.calls[2].addr = {3}
    /\ "code" \in bus.calls[2].access
    /\ bus.calls[3].kind = "read_word" /\ bus.calls[3].addr = {3, 2}
    /\ "code" \in bus.calls[3].access

\* C13 as stated: from the reset scenario one step ends with R15 = 0x10 and
\* has made the two reload code fetches at 0x8 and 0xC.
C13_ResetStep_AnyPipeline == ResetScenario => ReloadAt8AndC

\* C13: the same when pipeline slot 0 already holds the word 0xEA000002
\* before the step; the step then makes its fetch at 0 and the two reload
\* code fetches at 0x8 and 0xC, and ends with R15 = 0x10.
C13_ResetStep ==
    (ResetScenario /\ initial.pipeline[1] = B2) =>
        /\ ReloadAt8AndC
        /\ bus.calls[1].kind = "read_word" /\ bus.calls[1].addr = {}

C13_Witness ==
    /\ ResetScenario
    /\ initial.pipeline = <<B2, {}>>
    /\ cpu.registers.user_bank[PC_IDX] = {4}
    /\ cpu.pipeline = <<{3}, {3, 2}>>

\* a step retired a word that decodes and whose condition does not hold
ConditionFailed == last.op = "step" /\ last.opcode # None /\ ~last.executed

\* the register file after the step is the one before it with R15 = pc
OnlyPcBecomes(pc) ==
    cpu.registers = [initial.registers EXCEPT !.user_bank[PC_IDX] = pc]

\* what a step does whose opcode is not executed, R15 ending at pc
NotExecuted(pc) ==
    /\ OnlyPcBecomes(pc)
    /\ Len(bus.calls) = 2
    /\ bus.calls[1] = [kind |-> "read_word", addr |-> P0 \ {0},
                       access |-> initial.next_access]
    /\ bus.calls[2] = [kind |-> "read_word", addr |-> P0 \ {0}, access |-> ACCESS_CODE]
    /\ cpu.pipeline[1] = initial.pipeline[2]
    /\ cpu.pipeline[2] = MemWord(P0)
    /\ cpu.next_access = ACCESS_CODE \cup ACCESS_SEQ

\* C14 as stated: R15 ends exactly 4 above its value before the step.
C14_ConditionFailed_Plus4 == ConditionFailed => NotExecuted(Plus(P0, W4))

\* C14: a step whose retired word decodes but whose condition does not hold
\* changes no register of any bank other than R15, nor the CPSR or a saved
\* status word; it fetches at R15 into pipeline slot 1 after moving slot 1
\* to slot 0, reads the same address once more as a code access, leaves the
\* next access sequential code, and R15 ends 4 above its value with bit 0
\* cleared (exactly 4 above its value when that was even).
C14_ConditionFailed == ConditionFailed => NotExecuted(Plus(P0 \ {0}, W4))

\* condition NV on an even R15, and a failed condition on an odd R15
C14_Witness ==
    /\ ConditionFailed
    /\ initial.pipeline[1] \cap (28..31) = 28..31
    /\ 0 \notin P0
    /\ cpu.registers.user_bank[PC_IDX] = Plus(P0, W4)

C14_WitnessOddPc ==
    /\ ConditionFailed
    /\ 0 \in P0
    /\ cpu.registers.user_bank[PC_IDX] = Plus(P0, {1, 0})

\* a step retired a word that no decoder accepts
DecodeFailed == last.op = "step" /\ last.opcode = None

\* what such a step does, R15 ending at pc, and what the step after it does
DecodeFailure(pc) ==
    DecodeFailed =>
        /\ OnlyPcBecomes(pc)
        /\ bus.calls = <<[kind |-> "read_word", addr |-> P0 \ {0},
                          access |-> initial.next_access]>>
        /\ cpu.pipeline = <<initial.pipeline[2], MemWord(P0)>>
        /\ cpu.next_access = initial.next_access
        /\ steps' = steps + 1 =>
              /\ last'.op = "step"
              /\ last'.opcode = decode_arm_opcode(initial.pipeline[2])
              /\ last'.executed = (/\ last'.opcode # None
                                   /\ check_condition(cpu.registers, initial.pipeline[2]))

\* C15 as stated: R15 is left as it was.
C15_DecodeFailure_PcKept == [][DecodeFailure(P0)]_vars

\* C15: a step whose retired word matches no encoding does not abort; it
\* changes no register of any bank, nor the CPSR or a saved status word,
\* except that bit 0 of R15 is cleared; its only bus call is the pipeline
\* fetch; and the step after it retires the word that was in pipeline slot 1
\* and executes it if its condition holds.
C15_DecodeFailure == [][DecodeFailure(P0 \ {0})]_vars

\* an undecodable word was retired and B #2 from slot 1 is next
C15_Witness ==
    /\ DecodeFailed
    /\ steps = 1
    /\ cpu.registers = initial.registers
    /\ Len(bus.calls) = 1
    /\ cpu.pipeline[1] = OpBranch(AL, FALSE, U32(0, 2))

\* B #2 from slot 1 was executed by the step after the undecodable word
C15_WitnessFollowing ==
    /\ Executed("B")
    /\ steps = 2
    /\ initial.pipeline[2] = {3}
    /\ cpu.registers.user_bank[PC_IDX] = U32(0, 24)

\* an undecodable word was retired with R15 odd
C15_WitnessOddPc ==
    /\ DecodeFailed
    /\ 0 \in P0
    /\ cpu.registers.user_bank[PC_IDX] = P0 \ {0}

\* the five mode bits of each mode: 10000, 10001, 10010, 10011, 10111,
\* 11011, 11111
ModeEncoding(m) ==
    CASE m = "User"       -> Word16(16)
      [] m = "Fiq"        -> Word16(17)
      [] m = "Irq"        -> Word16(18)
      [] m = "Supervisor" -> Word16(19)
      [] m = "Abort"      -> Word16(23)
      [] m = "Undefined"  -> Word16(27)
      [] m = "System"     -> Word16(31)

\* the register file is the one before the operation but for the CPSR
OnlyCpsrChanged ==
    [cpu EXCEPT !.registers.cpsr = initial.registers.cpsr] = initial

\* C16: after switch_cpu_mode to any of the seven modes, in either execution
\* state, mode() returns that mode and state() the state it returned before;
\* switch_cpu_mode changes only the five mode bits of the CPSR, which become
\* the encoding of the mode, and toggle_cpu_state changes only the state
\* bit (bit 5), so that state() returns the other state and mode() the same
\* mode.
C16_ModeStateRoundTrip ==
    /\ last.op = "switch" =>
          /\ mode(cpu.registers) = last.cpu_mode
          /\ state(cpu.registers) = state(initial.registers)
          /\ cpu.registers.cpsr \cap (0..4) = ModeEncoding(last.cpu_mode)
          /\ cpu.registers.cpsr \ (0..4) = initial.registers.cpsr \ (0..4)
          /\ OnlyCpsrChanged
    /\ last.op = "toggle" =>
          /\ state(cpu.registers) # state(initial.registers)
          /\ state(cpu.registers) = (IF 5 \in initial.registers.cpsr THEN "Arm" ELSE "Thumb")
          /\ mode(cpu.registers) = mode(initial.registers)
          /\ xor32(cpu.registers.cpsr, initial.registers.cpsr) = {5}
          /\ OnlyCpsrChanged

\* Irq mode was written in Thumb state and both read back
C16_Witness ==
    /\ last.op = "switch"
    /\ last.cpu_mode = "Irq"
    /\ mode(initial.registers) = "System"
    /\ mode(cpu.registers) = "Irq"
    /\ state(cpu.registers) = "Thumb"

\* the five mode bits of a CPSR are one of the seven encodings
ValidModeBits(cpsr) == \E m \in Modes : cpsr \cap (0..4) = ModeEncoding(m)

\* the mode whose encoding the five mode bits of a valid CPSR are
EncodedMode(cpsr) == CHOOSE m \in Modes : cpsr \cap (0..4) = ModeEncoding(m)

\* C17: when the low five bits of the CPSR are not one of the seven mode
\* encodings, decoding the mode gives an error and mode(), an indexed read,
\* an indexed write and spsr_moded() abort, leaving the register file as it
\* was; an operation that returns has resolved the mode the bits encode and
\* the bank of that mode, never a default.
C17_InvalidModeAborts ==
    /\ ValidModeBits(cpu.registers.cpsr) <=> TryFromCpuMode(cpu.registers.cpsr) # "Err"
    /\ last.op = "panic" =>
          /\ ~ValidModeBits(initial.registers.cpsr)
          /\ cpu = initial
    /\ last.op \in {"mode", "index", "index_mut", "spsr_moded"} =>
          ValidModeBits(initial.registers.cpsr)
    /\ last.op = "mode" => last.result = EncodedMode(initial.registers.cpsr)
    /\ last.op = "index" =>
          last.result = SlotValue(initial.registers, EncodedMode(initial.registers.cpsr),
                                  last.index)
    /\ last.op = "index_mut" =>
          cpu.registers = WithSlot(initial.registers, EncodedMode(initial.registers.cpsr),
                                   last.index, last.value)

\* an indexed read aborted on the mode bits 00000
C17_Witness ==
    /\ last.op = "panic"
    /\ last.call = "index"
    /\ cpu.registers.cpsr \cap (0..4) = {}

\* the banks and saved status words of two register files are the same
SameBanks(a, b) ==
    /\ a.user_bank = b.user_bank
    /\ a.fiq_registers = b.fiq_registers
    /\ a.r13_svc = b.r13_svc /\ a.r14_svc = b.r14_svc
    /\ a.r13_abt = b.r13_abt /\ a.r14_abt = b.r14_abt
    /\ a.r13_irq = b.r13_irq /\ a.r14_irq = b.r14_irq
    /\ a.r13_und = b.r13_und /\ a.r14_und = b.r14_und
    /\ a.spsr_fiq = b.spsr_fiq /\ a.spsr_svc = b.spsr_svc /\ a.spsr_abt = b.spsr_abt
    /\ a.spsr_irq = b.spsr_irq /\ a.spsr_und = b.spsr_und

\* a switch of the mode: no bank and no saved status word changes, and every
\* index then reads the slot it names in the new mode
SwitchCopiesNothing ==
    last'.op = "switch" =>
        /\ SameBanks(cpu.registers, cpu'.registers)
        /\ \A i \in 0..15 :
              index(cpu'.registers, i) = SlotValue(cpu.registers, last'.cpu_mode, i)

\* two switches in a row, the second back to the mode before the first:
\* every index reads what it read before the first
SwitchAndBack ==
    (/\ last.op = "switch"
     /\ last'.op = "switch"
     /\ steps' = steps + 1
     /\ last'.cpu_mode = mode(initial.registers)) =>
        \A i \in 0..15 : index(cpu'.registers, i) = index(initial.registers, i)

\* C18: switch_cpu_mode copies nothing: the user bank, the FIQ bank, every
\* banked R13 and R14 and every saved status word are the same before and
\* after it; afterwards an index reads the slot it names in the new mode;
\* and switching to a mode and back makes every index read the value it
\* read before.
C18_SwitchCopiesNothing == [][SwitchCopiesNothing /\ SwitchAndBack]_vars

\* System -> Fiq -> System: R8 read the FIQ bank in between and reads the
\* user bank again
C18_Witness ==
    /\ last.op = "switch"
    /\ steps = 2
    /\ last.cpu_mode = "System"
    /\ mode(initial.registers) = "Fiq"
    /\ index(initial.registers, 8) = U32(61704, 8)
    /\ index(cpu.registers, 8) = U32(0, 33)
    /\ SameBanks(cpu.registers, initial.registers)

\* the saved status word of a mode that has one, the CPSR for User and System
StatusWordOf(rf, m) ==
    CASE m = "Fiq"        -> rf.spsr_fiq
      [] m = "Irq"        -> rf.spsr_irq
      [] m = "Supervisor" -> rf.spsr_svc
      [] m = "Abort"      -> rf.spsr_abt
      [] m = "Undefined"  -> rf.spsr_und
      [] m \in {"User", "System"} -> rf.cpsr

\* C19: spsr_moded returns the saved status word of the active mode in FIQ,
\* IRQ, Supervisor, Abort and Undefined mode and the CPSR in User and System
\* mode, and changes nothing.
C19_SpsrModed ==
    last.op = "spsr_moded" =>
        /\ last.result = StatusWordOf(initial.registers, EncodedMode(initial.registers.cpsr))
        /\ cpu = initial

\* the saved status word of IRQ mode was returned, not the CPSR
C19_Witness ==
    /\ last.op = "spsr_moded"
    /\ EncodedMode(cpu.registers.cpsr) = "Irq"
    /\ last.result = {28, 5, 4}
    /\ last.result # cpu.registers.cpsr

\* the CPSR was returned in System mode
C19_WitnessSystem ==
    /\ last.op = "spsr_moded"
    /\ EncodedMode(cpu.registers.cpsr) = "System"
    /\ last.result = cpu.registers.cpsr

\* C20: a newly constructed CPU is in its reset state: R0..R15 of the user
\* bank, the FIQ bank and every banked R13 and R14 are 0, every saved status
\* word is 0, the CPSR is 0x000000DF (mode System, state ARM, IRQ and FIQ
\* disabled, the four condition flags clear), both pipeline slots are 0 and
\* the next access is a code access.
C20_ResetState ==
    last.op = "new" =>
        /\ \A i \in 0..15 : cpu.registers.user_bank[i] = {}
        /\ \A j \in 0..6 : cpu.registers.fiq_registers[j] = {}
        /\ cpu.registers.r13_svc = {} /\ cpu.registers.r14_svc = {}
        /\ cpu.registers.r13_abt = {} /\ cpu.registers.r14_abt = {}
        /\ cpu.registers.r13_irq = {} /\ cpu.registers.r14_irq = {}
        /\ cpu.registers.r13_und = {} /\ cpu.registers.r14_und = {}
        /\ cpu.registers.spsr_fiq = {} /\ cpu.registers.spsr_svc = {}
        /\ cpu.registers.spsr_abt = {} /\ cpu.registers.spsr_irq = {}
        /\ cpu.registers.spsr_und = {}
        /\ cpu.registers.cpsr = Word16(223)
        /\ mode(cpu.registers) = "System"
        /\ state(cpu.registers) = "Arm"
        /\ {7, 6} \subseteq cpu.registers.cpsr
        /\ cpu.registers.cpsr \cap {31, 30, 29, 28} = {}
        /\ \A i \in 0..15 : index(cpu.registers, i) = {}
        /\ cpu.pipeline = <<{}, {}>>
        /\ cpu.next_access = ACCESS_CODE

\* a CPU that held other values was replaced by a newly constructed one
C20_Witness ==
    /\ last.op = "new"
    /\ initial.pipeline[1] # {}
    /\ mode(initial.registers) = "Supervisor"
    /\ cpu.registers.cpsr = Word16(223)
    /\ cpu.pipeline = <<{}, {}>>

\* the results of the four decoders for the word of the last decode
Matches == <<last.b_bl, last.bx, last.data_processing, last.ldm_stm>>

\* the first result other than None when the decoders are tried in an order
FirstMatch(order) ==
    IF \E k \in 1..4 : Matches[order[k]] # None
    THEN Matches[order[CHOOSE k \in 1..4 :
                          /\ Matches[order[k]] # None
                          /\ \A j \in 1..(k - 1) : Matches[order[j]] = None]]
    ELSE None

\* the orderings of the four decoders
Orderings == {o \in [1..4 -> 1..4] : \A a, b \in 1..4 : a # b => o[a] # o[b]}

\* C21: for every word at most one of the four decoders (B/BL, BX, data
\* processing, LDM/STM) accepts it, so decode_arm_opcode gives the result
\* that trying the decoders in any other order gives.
C21_DecodersExclusive ==
    last.op = "decode" =>
        /\ Cardinality({k \in 1..4 : Matches[k] # None}) <= 1
        /\ \A o \in Orderings : FirstMatch(o) = last.opcode

\* a BX word: only the BX decoder accepts it although bits 27..26 are 00
C21_Witness ==
    /\ last.op = "decode"
    /\ last.bx # None
    /\ last.word \cap {27, 26} = {}
    /\ last.data_processing = None
    /\ last.opcode = last.bx

\* bits 27..4 of a word are 0001 0010 1111 1111 1111 0001
BxPattern(word) ==
    word \cap (4..27) = {24, 21} \cup (8..19) \cup {4}

\* C22: a word decodes to BX exactly when its bits 27..4 are 0x12FFF1, and
\* the register decoded is then its low four bits.
C22_BxPattern ==
    last.op = "decode" =>
        /\ (last.opcode.kind = "BX") <=> BxPattern(last.word)
        /\ last.opcode.kind = "BX" => Word16(last.opcode.register_idx) = last.word \cap (0..3)

\* a word whose bits 7..5 are not 000 decoded to BX
C22_BxWithBits7To5 ==
    /\ last.op = "decode"
    /\ last.word = Cond(AL) \cup {24, 21} \cup (8..19) \cup {5, 4} \cup {3, 2, 1}
    /\ last.opcode = [kind |-> "BX", register_idx |-> 14]

\* the fields of a word that the data-processing decoder reads
OperationOf(word) == {i - 21 : i \in word \cap (21..24)}
IsComparison(word) == OperationOf(word) \cap {3, 2} = {3}
IsMove(word) == OperationOf(word) \cap {3, 2, 0} = {3, 2, 0}

\* the three rejections of the claim
RejectedComparison(word) == IsComparison(word) /\ 20 \notin word
RejectedMove(word) == IsMove(word) /\ word \cap (16..19) # {}
RejectedShift(word) == 25 \notin word /\ 4 \in word /\ 7 \in word

\* C23: a word with bits 27..26 = 00 is rejected by the data-processing
\* decoder when the operation is TST, TEQ, CMP or CMN and bit 20 is 0, when
\* the operation is MOV or MVN and bits 19..16 are not 0000, and when bit 25
\* is 0 and bits 4 and 7 are both 1; in every word it accepts, set_flags is
\* bit 20 and the operation is bits 24..21.
C23_DataProcessingRejects ==
    (last.op = "decode" /\ last.word \cap {27, 26} = {}) =>
        /\ RejectedComparison(last.word) => last.data_processing = None
        /\ RejectedMove(last.word) => last.data_processing = None
        /\ RejectedShift(last.word) => last.data_processing = None
        /\ last.data_processing # None =>
              /\ last.data_processing.set_flags = (20 \in last.word)
              /\ Word16(last.data_processing.sub_opcode) = OperationOf(last.word)

\* MOV with Rn = 1 was rejected, and CMP with S set was accepted
C23_Witness ==
    /\ last.op = "decode"
    /\ last.word \cap (20..27) = {24, 23, 21}
    /\ last.word \cap (16..19) = {16}
    /\ last.data_processing = None
    /\ last.opcode = None

C23_WitnessAccepted ==
    /\ last.op = "decode"
    /\ last.word \cap (20..27) = {24, 22, 20}
    /\ last.data_processing # None
    /\ last.data_processing.sub_opcode = CMP
    /\ last.data_processing.set_flags

\* the destination field (bits 15..12) of a word, as a number
DestinationOf(word) ==
    (IF 12 \in word THEN 1 ELSE 0) + (IF 13 \in word THEN 2 ELSE 0)
  + (IF 14 \in word THEN 4 ELSE 0) + (IF 15 \in word THEN 8 ELSE 0)

C24_WitnessAccepted ==
    /\ last.op = "decode"
    /\ last.word \cap (20..27) = {24, 20}
    /\ DestinationOf(last.word) = 15
    /\ last.opcode.kind = "DataProcessing"
    /\ last.opcode.rd = 15

---------------------------------------------------------------------------
(* Arithmetic overflow                                                     *)

\* a step that aborted
Aborted == last.op = "panic"

\* C25: no step and no block transfer aborts on 32-bit arithmetic overflow:
\* the PC advance of a register-shifted data-processing opcode retired with
\* R15 = 0xFFFFFFFC and the address arithmetic of a block transfer wrap
\* modulo 2^32.
C25_NoOverflowAbort == ~Aborted

\* a register-shifted data-processing opcode retired with R15 = 0xFFFFFFFC
\* aborts on the PC advance
C25_PcAdvanceAborts ==
    /\ Aborted
    /\ last.opcode.kind = "DataProcessing"
    /\ last.opcode.operand.form = "RegisterShiftedRegister"
    /\ index(cpu.registers, PC_IDX) = Bits32 \ {0, 1}

\* a block transfer aborts on its address arithmetic
C25_BlockTransferAborts ==
    /\ Aborted
    /\ last.opcode.kind = "BlockDataTransfer"

---------------------------------------------------------------------------
(* Data processing with destination R15                                    *)

\* the ARM definition of the result of a logical sub-opcode
LogicalResult(sub_opcode, a, b) ==
    CASE sub_opcode \in {AND, TST} -> a \cap b
      [] sub_opcode \in {EOR, TEQ} -> (a \ b) \cup (b \ a)
      [] sub_opcode = ORR          -> a \cup b
      [] sub_opcode = MOV          -> b
      [] sub_opcode = BIC          -> a \ b
      [] sub_opcode = MVN          -> Bits32 \ b

\* the result of the data-processing opcode that was executed
ResultOf ==
    LET a == last.operands.operand_a
        b == last.operands.operand_b
        t == ArithTerms(last.opcode.sub_opcode, a, b, Bit(initial.registers.cpsr, 29))
    IN  IF last.opcode.sub_opcode \in ArithOps
        THEN PlusC(t.x, t.y, t.cin)
        ELSE LogicalResult(last.opcode.sub_opcode, a, b)

\* the N, Z, C, V bits that the data-processing opcode that was executed
\* computes when set-flags is requested
ComputedFlags ==
    LET a == last.operands.operand_a
        b == last.operands.operand_b
        t == ArithTerms(last.opcode.sub_opcode, a, b, Bit(initial.registers.cpsr, 29))
        r == ResultOf
    IN  IF last.opcode.sub_opcode \in ArithOps
        THEN Flags(31 \in r, r = {},
                   CarryInto(t.x, t.y, t.cin, 31) + Bit(t.x, 31) + Bit(t.y, 31) >= 2,
                   (31 \in t.x <=> 31 \in t.y) /\ ~(31 \in r <=> 31 \in t.x))
        ELSE Flags(31 \in r, r = {},
                   IF last.operands.shifted_carry.some
                   THEN last.operands.shifted_carry.carry
                   ELSE 29 \in initial.registers.cpsr,
                   28 \in initial.registers.cpsr)

\* C26: a data-processing opcode with destination R15 and set-flags replaces
\* the whole CPSR with the saved status word of the mode that was current
\* when it executed (in User and System mode the CPSR itself with the flags
\* the opcode computed); with destination R15 without set-flags, and with
\* any other destination, the mode, state and interrupt-disable bits of the
\* CPSR are unchanged.
C26_StatusRestore ==
    Executed("DataProcessing") =>
        IF last.opcode.rd = PC_IDX /\ last.opcode.set_flags
        THEN cpu.registers.cpsr =
                IF Mode0 \in {"User", "System"}
                THEN (initial.registers.cpsr \ {31, 30, 29, 28}) \cup ComputedFlags
                ELSE StatusWordOf(initial.registers, Mode0)
        ELSE cpu.registers.cpsr \cap (0..7) = initial.registers.cpsr \cap (0..7)

\* SUBS R15, R1, #255 in Supervisor mode left the CPSR equal to SPSR_svc,
\* which names System mode
C26_Witness ==
    /\ Executed("DataProcessing")
    /\ last.opcode.rd = PC_IDX /\ last.opcode.set_flags
    /\ last.opcode.sub_opcode = SUB
    /\ Mode0 = "Supervisor"
    /\ cpu.registers.cpsr = initial.registers.spsr_svc
    /\ cpu.registers.cpsr # initial.registers.cpsr
    /\ ModeOf(cpu.registers.cpsr) = "System"

\* SUBS R15, R1, #255 in System mode kept the CPSR but for the flags, which
\* are those of 1 - 255
C26_WitnessSystem ==
    /\ Executed("DataProcessing")
    /\ last.opcode.rd = PC_IDX /\ last.opcode.set_flags
    /\ last.opcode.sub_opcode = SUB
    /\ last.opcode.operand.form = "Immediate"
    /\ Mode0 = "System"
    /\ cpu.registers.cpsr = (initial.registers.cpsr \ {31, 30, 29, 28}) \cup {31}

\* an executed data-processing opcode with destination R15
DestinationPc == Executed("DataProcessing") /\ last.opcode.rd = PC_IDX

\* R0..R14 of every bank are as before the step
LowRegistersKept ==
    /\ \A i \in 0..14 : cpu.registers.user_bank[i] = initial.registers.user_bank[i]
    /\ cpu.registers.fiq_registers = initial.registers.fiq_registers
    /\ cpu.registers.r13_svc = initial.registers.r13_svc
    /\ cpu.registers.r14_svc = initial.registers.r14_svc
    /\ cpu.registers.r13_abt = initial.registers.r13_abt
    /\ cpu.registers.r14_abt = initial.registers.r14_abt
    /\ cpu.registers.r13_irq = initial.registers.r13_irq
    /\ cpu.registers.r14_irq = initial.registers.r14_irq
    /\ cpu.registers.r13_und = initial.registers.r13_und
    /\ cpu.registers.r14_und = initial.registers.r14_und

\* the pipeline was reloaded in ARM state from the result R: the last two
\* bus calls are word reads at R and R + 4, they fill the two slots, and
\* R15 = R + 8
ReloadedFrom(R) ==
    LET n == Len(bus.calls)
    IN  /\ n >= 3
        /\ bus.calls[n - 1].kind = "read_word" /\ bus.calls[n - 1].addr = R
        /\ bus.calls[n].kind = "read_word" /\ bus.calls[n].addr = Plus(R, W4)
        /\ cpu.pipeline = <<MemWord(R), MemWord(Plus(R, W4))>>
        /\ cpu.registers.user_bank[PC_IDX] = Plus(R, W8)

\* no pipeline reload: the only read of the step is the fetch at the PC,
\* slot 1 moved to slot 0, R0..R14 are kept and R15 became pc
NotRedirected(pc) ==
    /\ \A k \in 2..Len(bus.calls) : bus.calls[k].kind = "idle"
    /\ bus.calls[1].kind = "read_word" /\ bus.calls[1].addr = P0 \ {0}
    /\ cpu.pipeline = <<initial.pipeline[2], MemWord(P0 \ {0})>>
    /\ LowRegistersKept
    /\ cpu.registers.user_bank[PC_IDX] = pc

\* C27 as stated, with R15 advancing by exactly 4 for TST, TEQ, CMP and CMN
\* with destination R15
C27_DestinationPc_Plus4 ==
    DestinationPc =>
        IF last.opcode.sub_opcode \in TestOps
        THEN NotRedirected(Plus(P0, W4))
        ELSE state(cpu.registers) = "Arm" => ReloadedFrom(ResultOf)

\* C27: a data-processing opcode with destination R15 that is not TST, TEQ,
\* CMP or CMN reloads the pipeline from its result R: in ARM state both slots
\* are read from R and R + 4 and R15 = R + 8.  TST, TEQ, CMP and CMN with
\* destination R15 do not redirect control flow: no pipeline reload, no
\* register R0..R14 is written, and R15 has bit 0 cleared and advances by 4.
C27_DestinationPc ==
    DestinationPc =>
        IF last.opcode.sub_opcode \in TestOps
        THEN NotRedirected(Plus(P0 \ {0}, W4))
        ELSE state(cpu.registers) = "Arm" => ReloadedFrom(ResultOf)

\* MOV PC, R1 with R1 = 1 reloaded the pipeline from address 1 and left
\* R15 = 9
C27_Witness ==
    /\ DestinationPc
    /\ last.opcode.sub_opcode = MOV
    /\ ResultOf = {0}
    /\ bus.calls[2].addr = {0} /\ bus.calls[3].addr = {0, 2}
    /\ cpu.registers.user_bank[PC_IDX] = {0, 3}

\* TEQP R1, R2 retired with R15 = 8 left R15 = 12 and the pipeline shifted
C27_WitnessTest ==
    /\ DestinationPc
    /\ last.opcode.sub_opcode = TEQ
    /\ P0 = {3}
    /\ cpu.registers.user_bank[PC_IDX] = {3, 2}
    /\ cpu.pipeline[1] = initial.pipeline[2]

\* TEQP R1, R2 retired with R15 = 9 left R15 = 12
C27_WitnessOddPc ==
    /\ DestinationPc
    /\ last.opcode.sub_opcode = TEQ
    /\ P0 = {3, 0}
    /\ cpu.registers.user_bank[PC_IDX] = {3, 2}

---------------------------------------------------------------------------
(* Register-specified shifts                                               *)

\* an executed data-processing opcode whose second operand is a register
\* shifted by a register
RegisterShift ==
    Executed("DataProcessing") /\ last.opcode.operand.form = "RegisterShiftedRegister"

\* the number of idle cycles among the bus calls of the step
IdleCycles == Cardinality({k \in 1..Len(bus.calls) : bus.calls[k].kind = "idle"})

\* the ARM definition of a register-specified shift of v by n in 0..255
ShiftedBy(shift_type, v, n) ==
    CASE shift_type = Lsl -> {i + n : i \in v} \cap Bits32
      [] shift_type = Lsr -> {i - n : i \in v} \cap Bits32
      [] shift_type = Asr -> ({i - n : i \in v} \cap Bits32)
                                \cup (IF 31 \in v THEN {i \in Bits32 : i + n > 31} ELSE {})
      [] shift_type = Ror -> {(i + 32 * 8 - n) % 32 : i \in v}

\* what index i reads before the step and after the PC advanced by 4
Before(i) == SlotValue(initial.registers, Mode0, i)
Advanced(i) == IF i = PC_IDX THEN Plus(P0, W4) ELSE Before(i)

\* the low byte of a word as a number
LowByte(w) == ToNat(w \cap (0..7))

\* C28: a data-processing opcode whose second operand is a register shifted
\* by a register issues exactly one idle cycle, reads the shift amount after
\* R15 has advanced by 4 (with Rs = R15 the amount is the low byte of the
\* advanced PC), and advances R15 by exactly 4 in total when the destination
\* is not R15.
C28_RegisterShift ==
    RegisterShift =>
        /\ IdleCycles = 1
        /\ last.operands.operand_b =
              ShiftedBy(last.opcode.operand.shift_type,
                        Advanced(last.opcode.operand.operand_register),
                        LowByte(Advanced(last.opcode.operand.shift_register)))
        /\ last.opcode.rd # PC_IDX => cpu.registers.user_bank[PC_IDX] = Plus(P0, W4)

\* what the executor does: the shift amount is the low byte of Rs as it was
\* before the PC advanced, the shifted register is read after the advance
C28_AmountReadBeforeAdvance ==
    RegisterShift =>
        /\ IdleCycles = 1
        /\ last.operands.operand_b =
              ShiftedBy(last.opcode.operand.shift_type,
                        Advanced(last.opcode.operand.operand_register),
                        LowByte(Before(last.opcode.operand.shift_register)))
        /\ last.opcode.rd # PC_IDX => cpu.registers.user_bank[PC_IDX] = Plus(P0, W4)

\* MOV R0, R5, LSL R15 retired with R15 = 8 shifted R5 by 8, not by 12
C28_ShiftByPc ==
    /\ RegisterShift
    /\ last.opcode.operand.shift_register = PC_IDX
    /\ last.opcode.operand.operand_register = 5
    /\ P0 = {3}
    /\ last.operands.operand_b = {8}

---------------------------------------------------------------------------
(* The next-access flag                                                    *)

\* the values of the flag at the start of a step: a code fetch that is or is
\* not sequential
StartFlags == {ACCESS_CODE \cup ACCESS_SEQ, ACCESS_CODE \cup ACCESS_NONSEQ}

\* the flag after a step of the CPU with the flag set to a beforehand
FlagAfter(a) ==
    execute_next_arm([cpu |-> [cpu EXCEPT !.next_access = a],
                      bus |-> [bus EXCEPT !.calls = <<>>]]).cpu.next_access

\* the flag a step leaves is the one it would leave from any other flag
FlagIndependent ==
    last'.op = "step" => \A a \in StartFlags : cpu'.next_access = FlagAfter(a)

\* C29: every path through a step (opcode executed, condition failed, word
\* not decodable) assigns the next-access flag, so the flag after a step is a
\* function of the retired word and the registers and does not depend on the
\* flag before the step.
C29_FlagIndependent == [][FlagIndependent]_vars

\* a step that retired an undecodable word left the flag non-sequential
C29_UndecodedNonSeq == DecodeFailed /\ cpu.next_access = ACCESS_CODE \cup ACCESS_NONSEQ

\* a step that retired an undecodable word left the flag sequential
C29_UndecodedSeq == DecodeFailed /\ cpu.next_access = ACCESS_CODE \cup ACCESS_SEQ

\* the flag after a step that retired a word that decodes does not depend
\* on the flag before the step
C29_DecodedFlagIndependent ==
    [][last'.opcode # None /\ last'.opcode.kind # "BlockDataTransfer" => FlagIndependent]_vars

---------------------------------------------------------------------------
(* The order and the addresses of a block transfer                         *)

\* what index i read when the transfer began: R15 had advanced by 4
Reg0(i) == IF i = PC_IDX THEN Plus(P0, W4) ELSE SlotValue(initial.registers, Mode0, i)

\* the lowest address of a transfer of n words
LowestAddress(n) ==
    IF last.opcode.increment
    THEN IF last.opcode.pre_increment THEN Plus(Rb0, W4) ELSE Rb0
    ELSE IF last.opcode.pre_increment
         THEN Minus(Rb0, Word16(4 * n))
         ELSE Minus(Rb0, Word16(4 * (n - 1)))

\* the k-th bus call moves register i at the k-th word from the lowest
\* address: a write of the register for STM, a read into it for LDM (the
\* stored value of the base register and a loaded R15 apart)
Moves(k, i, n) ==
    LET addr == Plus(LowestAddress(n), Word16(4 * (k - 1)))
    IN  /\ bus.calls[k].addr = addr
        /\ BlockTransfer("STM") =>
              /\ bus.calls[k].kind = "write_word"
              /\ i # last.opcode.base_register => bus.calls[k].data = Reg0(i)
        /\ BlockTransfer("LDM") =>
              /\ bus.calls[k].kind = "read_word"
              /\ i # PC_IDX => SlotValue(cpu.registers, Mode0, i) = DataWord(addr)

\* the registers of the list move in ascending order at consecutive words
AscendingTransfers ==
    \A i \in last.opcode.rlist :
        Moves(PlaceOf(last.opcode.rlist, i), i, Cardinality(last.opcode.rlist))

\* a block transfer with a register list that is not empty
ListTransfer == last.op = "block_transfer" /\ last.opcode.rlist # {}

\* C30 as stated: exactly n bus transactions for every transfer of n
\* registers
C30_BlockTransferOrder_ExactlyN ==
    ListTransfer =>
        /\ Len(bus.calls) = Cardinality(last.opcode.rlist)
        /\ AscendingTransfers

\* C30: a block transfer of n >= 1 registers moves them in ascending
\* register order at n consecutive word addresses starting at base
\* (post-indexed up), base + 4 (pre-indexed up), base - 4 * (n - 1)
\* (post-indexed down) or base - 4 * n (pre-indexed down); these are the
\* first n bus transactions, reads for a load and writes for a store, and
\* the only ones unless a load has R15 in its list: then two more reads
\* refill the pipeline from the loaded word.
C30_BlockTransferOrder ==
    ListTransfer =>
        LET n == Cardinality(last.opcode.rlist)
        IN  /\ Len(bus.calls) >= n
            /\ AscendingTransfers
            /\ IF BlockTransfer("LDM") /\ PC_IDX \in last.opcode.rlist
               THEN /\ Len(bus.calls) = n + 2
                    /\ bus.calls[n + 1].kind = "read_word"
                    /\ bus.calls[n + 1].addr = DataWord(bus.calls[n].addr)
                    /\ bus.calls[n + 2].kind = "read_word"
                    /\ bus.calls[n + 2].addr = Plus(DataWord(bus.calls[n].addr), W4)
               ELSE Len(bus.calls) = n

\* STMDB R13, {R6, R7, R13} wrote R6 at R13 - 12, R7 at R13 - 8 and a third
\* word at R13 - 4
C30_Witness ==
    /\ BlockTransfer("STM")
    /\ last.opcode.rlist = {6, 7, 13} /\ last.opcode.base_register = 13
    /\ ~last.opcode.increment /\ last.opcode.pre_increment
    /\ Len(bus.calls) = 3
    /\ bus.calls[1].addr = Minus(Rb0, {3, 2}) /\ bus.calls[1].data = {5}
    /\ bus.calls[2].addr = Minus(Rb0, {3}) /\ bus.calls[2].data = {8}
    /\ bus.calls[3].addr = Minus(Rb0, {2})

\* LDMIA R13, {R0, R13, R15} made three data reads and two reads that refill
\* the pipeline
C30_WitnessLoadPc ==
    /\ BlockTransfer("LDM")
    /\ last.opcode.rlist = {0, 13, 15} /\ last.opcode.base_register = 13
    /\ last.opcode.increment /\ ~last.opcode.pre_increment
    /\ Len(bus.calls) = 5
    /\ bus.calls[1].addr = Rb0
    /\ cpu.registers.user_bank[0] = DataWord(Rb0)

---------------------------------------------------------------------------
(* The access kinds of a block transfer                                    *)

\* the k-th bus call of the last operation is tagged sequential
Sequential(k) == "seq" \in bus.calls[k].access

\* C31: within one block transfer the first word transaction is tagged
\* non-sequential and every later one sequential, for LDM and STM and for
\* every register list, the empty one included.
C31_FirstNonSequential ==
    last.op = "block_transfer" =>
        /\ Len(bus.calls) >= 1
        /\ ~Sequential(1)
        /\ \A k \in 2..Len(bus.calls) : Sequential(k)

\* STMIA R13, {R6, R7, R13} made three writes, the first non-sequential and
\* the other two sequential
C31_Witness ==
    /\ BlockTransfer("STM")
    /\ last.opcode.rlist = {6, 7, 13}
    /\ Len(bus.calls) = 3
    /\ bus.calls[1].access = ACCESS_NONSEQ
    /\ bus.calls[2].access = ACCESS_SEQ
    /\ bus.calls[3].access = ACCESS_SEQ

\* an LDM with an empty list made its one data read non-sequential
C31_WitnessEmpty ==
    /\ BlockTransfer("LDM")
    /\ last.opcode.rlist = {}
    /\ bus.calls[1].access = ACCESS_NONSEQ
    /\ Len(bus.calls) = 3

---------------------------------------------------------------------------
(* Writeback of the base register                                          *)

\* the register list that is transferred: an empty list stands for {R15}
Transferred == IF last.opcode.rlist = {} THEN {PC_IDX} ELSE last.opcode.rlist

\* the number of words of the transfer
Words == Cardinality(Transferred)

\* the address at which register i of the list is transferred
SlotOf(i) == Plus(LowestAddress(Words), Word16(4 * (PlaceOf(Transferred, i) - 1)))

\* the address after the last transfer
EndAddress == Plus(LowestAddress(Words), Word16(4 * Words))

\* what the base register reads after the transfer
RbAfter == SlotValue(cpu.registers, Mode0, last.opcode.base_register)

\* the base register is loaded by the transfer
BaseLoaded == BlockTransfer("LDM") /\ last.opcode.base_register \in Transferred

\* the base register after a block transfer in which a loaded base register
\* ends up holding `loaded`
BaseAfter(loaded) ==
    last.op = "block_transfer" =>
        /\ last.opcode.rlist # {} => AscendingTransfers
        /\ BaseLoaded => RbAfter = loaded
        /\ ~BaseLoaded /\ ~last.opcode.write_address_into_base => RbAfter = Rb0

\* C32 as stated: a loaded base register holds the loaded value, whichever
\* register it is.
C32_Writeback_LoadedValue == BaseAfter(DataWord(SlotOf(last.opcode.base_register)))

\* C32: the base register is written back only after all word transfers (the
\* transfers use the addresses and registers of the base as it was), only
\* when the writeback bit is set, and never when the opcode is a load that
\* transfers the base register: the base then holds the loaded value, or
\* that value plus 8 after the pipeline reload when the base is R15.  With
\* the writeback bit clear the base changes only if it is loaded.
C32_Writeback ==
    BaseAfter(IF last.opcode.base_register = PC_IDX
              THEN Plus(DataWord(SlotOf(PC_IDX)), W8)
              ELSE DataWord(SlotOf(last.opcode.base_register)))

\* LDMIA R13!, {R6, R7, R13} left in R13 the word loaded from R13 + 8, not
\* the end address R13 + 12
C32_Witness ==
    /\ BlockTransfer("LDM")
    /\ last.opcode.write_address_into_base
    /\ last.opcode.base_register = 13 /\ last.opcode.rlist = {6, 7, 13}
    /\ last.opcode.increment /\ ~last.opcode.pre_increment
    /\ RbAfter = Plus(Rb0, W8)
    /\ RbAfter # EndAddress

\* STMIA R13!, {R6, R7} left R13 + 8 in R13 after writing R6 and R7 at R13
\* and R13 + 4, and STMIA R13, {R6, R7} left R13 as it was
C32_WitnessWriteback ==
    /\ BlockTransfer("STM")
    /\ last.opcode.base_register = 13 /\ last.opcode.rlist = {6, 7}
    /\ last.opcode.increment /\ ~last.opcode.pre_increment
    /\ bus.calls[1].addr = Rb0
    /\ RbAfter = IF last.opcode.write_address_into_base THEN Plus(Rb0, W8) ELSE Rb0

\* LDMIA R15, {R0, R13, R15} left in R15 the loaded word plus 8
C32_WitnessBasePc ==
    /\ BlockTransfer("LDM")
    /\ last.opcode.base_register = PC_IDX /\ last.opcode.rlist = {0, 13, 15}
    /\ last.opcode.increment /\ ~last.opcode.pre_increment
    /\ RbAfter = Plus(Plus(Rb0, W8), W8)

---------------------------------------------------------------------------
(* The pipeline reload of a block transfer                                 *)

\* the words the test bus can return for a read at an address: the address
\* itself, the opcode at its base address, or the data of a transaction
WordsAt(addr) ==
    {MemWord(addr), addr \ {0, 1}}
        \cup {bus.transactions[k].data :
                k \in {j \in 1..Len(bus.transactions) :
                          bus.transactions[j].addr = addr \ {0, 1}}}

\* after the n data transfers the pipeline was reloaded from V: two word
\* reads at V and V + 4 fill the slots and R15 = V + 8
ReloadedAfter(n, V) ==
    /\ Len(bus.calls) = n + 2
    /\ bus.calls[n + 1].kind = "read_word" /\ bus.calls[n + 1].addr = V
    /\ bus.calls[n + 2].kind = "read_word" /\ bus.calls[n + 2].addr = Plus(V, W4)
    /\ cpu.pipeline[1] \in WordsAt(V)
    /\ cpu.pipeline[2] = MemWord(Plus(V, W4))
    /\ cpu.registers.user_bank[PC_IDX] = Plus(V, W8)

\* no reload: the bus calls are the data transfers and the pipeline is kept
NoReload ==
    /\ Len(bus.calls) = Words
    /\ cpu.pipeline = initial.pipeline

\* a block transfer reloads the pipeline exactly when it is an LDM that
\* loads R15 according to `list`
ReloadsWhenLoading(list) ==
    last.op = "block_transfer" =>
        IF BlockTransfer("LDM") /\ PC_IDX \in list
        THEN ReloadedAfter(Words, DataWord(SlotOf(PC_IDX)))
        ELSE NoReload

\* C33 as stated: the LDM reloads exactly when R15 is in its register list.
C33_LoadPcReloads_ListOnly == ReloadsWhenLoading(last.opcode.rlist)

\* C33: an LDM that transfers R15 (R15 in its list, or an empty list)
\* reloads the pipeline right after the transfer that loads R15: with
\* loaded value V the two slots hold the words read at V and V + 4 and
\* R15 = V + 8 when the opcode completes; an STM and an LDM that does not
\* transfer R15 reload nothing.
C33_LoadPcReloads == ReloadsWhenLoading(Transferred)

\* LDMIA R13, {R0, R13, R15} loaded R15 from R13 + 8 and reloaded the
\* pipeline from there
C33_Witness ==
    /\ BlockTransfer("LDM")
    /\ last.opcode.rlist = {0, 13, 15} /\ last.opcode.base_register = 13
    /\ last.opcode.increment /\ ~last.opcode.pre_increment
    /\ Len(bus.calls) = 5
    /\ bus.calls[4].addr = Plus(Rb0, W8)
    /\ cpu.pipeline = <<Plus(Rb0, W8), Plus(Plus(Rb0, W8), W4)>>
    /\ cpu.registers.user_bank[PC_IDX] = Plus(Plus(Rb0, W8), W8)

\* an LDM with an empty list reloaded the pipeline
C33_WitnessEmpty ==
    /\ BlockTransfer("LDM")
    /\ last.opcode.rlist = {}
    /\ Len(bus.calls) = 3
    /\ cpu.pipeline # initial.pipeline

\* STMIA R13, {R0, R13, R15} kept the pipeline
C33_WitnessStore ==
    /\ BlockTransfer("STM")
    /\ last.opcode.rlist = {0, 13, 15}
    /\ Len(bus.calls) = 3
    /\ cpu.pipeline = initial.pipeline

---------------------------------------------------------------------------
(* Dispatch                                                                *)

\* the bus calls of the step after its fetch are the word transfers of the
\* LDM or STM that was retired, one for each register, at ascending
\* addresses
TransfersPerformed ==
    /\ Len(bus.calls) >= 1 + Words
    /\ \A k \in 1..Words :
          /\ bus.calls[1 + k].kind =
                (IF last.opcode.transfer_type = "LDM" THEN "read_word" ELSE "write_word")
          /\ bus.calls[1 + k].addr = Plus(LowestAddress(Words), Word16(4 * (k - 1)))

\* C34: step dispatches every opcode the decoder produces to its executor
\* when the condition holds: a retired word that decodes to
\* BlockDataTransfer with a passing condition has its transfers performed by
\* that step.
C34_BlockTransferDispatched == Executed("BlockDataTransfer") => TransfersPerformed

\* what the step does with an LDM or STM whose condition holds: the fetch
\* and nothing else
C34_BlockTransferIgnored ==
    Executed("BlockDataTransfer") =>
        /\ Len(bus.calls) = 1
        /\ cpu.registers = [initial.registers EXCEPT !.user_bank[PC_IDX] = P0 \ {0}]

\* LDMNEIA R13!, {R0, R1} was retired with Z clear
C34_LdmRetired ==
    /\ Executed("BlockDataTransfer")
    /\ last.opcode.transfer_type = "LDM"
    /\ last.opcode.rlist = {0, 1}
    /\ 30 \notin initial.registers.cpsr

---------------------------------------------------------------------------
(* Pipeline coherence                                                      *)

\* the pipeline slots of c hold the words the bus holds at R15 - 8 and
\* R15 - 4
Coherent(c) ==
    c.pipeline = <<MemWord(Minus(c.registers.user_bank[PC_IDX], W8)),
                   MemWord(Minus(c.registers.user_bank[PC_IDX], W4))>>

\* a step taken in ARM state from a coherent pipeline that leaves the CPU in
\* ARM state leaves the pipeline coherent
StepKeepsCoherent ==
    (/\ last'.op = "step"
     /\ Coherent(cpu)
     /\ state(cpu'.registers) = "Arm") => Coherent(cpu')

\* C35: every ARM-state step over a bus whose code memory does not change
\* preserves pipeline coherence: if slot 0 and slot 1 hold the words at
\* R15 - 8 and R15 - 4 before the step, they hold the words at the new
\* R15 - 8 and the new R15 - 4 after it, whether the opcode was executed,
\* its condition failed or the word was not decodable.
C35_PipelineCoherent == [][StepKeepsCoherent]_vars

\* the same for the steps that retire a word that decodes to a branch, a
\* branch-exchange or a data-processing opcode
C35_DecodedCoherent ==
    [][last'.opcode # None /\ last'.opcode.kind # "BlockDataTransfer" => StepKeepsCoherent]_vars

\* after an undecodable word the slots hold the words at R15 - 4 and R15
C35_UndecodedAhead ==
    /\ DecodeFailed
    /\ Coherent(initial)
    /\ cpu.pipeline = <<MemWord(Minus(P0, W4)), MemWord(P0)>>
    /\ cpu.registers.user_bank[PC_IDX] = P0

\* two steps after an undecodable word both slots hold the word at R15, which
\* is retired twice
C35_SameWordTwice ==
    /\ steps = 2
    /\ last.op = "step"
    /\ cpu.pipeline = <<MemWord(cpu.registers.user_bank[PC_IDX]),
                        MemWord(cpu.registers.user_bank[PC_IDX])>>
    /\ cpu.registers.user_bank[PC_IDX] = initial.registers.user_bank[PC_IDX]

---------------------------------------------------------------------------
(* The value written back to the base register                             *)

\* the base is written back: the writeback bit is set and the base register
\* is not loaded
WrittenBack ==
    last.op = "block_transfer" /\ last.opcode.write_address_into_base /\ ~BaseLoaded

\* the base moved by the whole block in the direction of the transfer
NewBase ==
    IF last.opcode.increment
    THEN Plus(Rb0, Word16(4 * Words))
    ELSE Minus(Rb0, Word16(4 * Words))

\* C36: when a block transfer of n words writes the base register back, the
\* base afterwards is the original base + 4 * n in the up direction and the
\* original base - 4 * n in the down direction, pre- and post-indexed alike;
\* an STM stores this value for a base register that is in the list and not
\* the first of it.
C36_WritebackValue ==
    WrittenBack =>
        /\ RbAfter = NewBase
        /\ (/\ BlockTransfer("STM")
            /\ last.opcode.base_register \in last.opcode.rlist
            /\ last.opcode.base_register # Lowest(last.opcode.rlist)) =>
              bus.calls[PlaceOf(last.opcode.rlist, last.opcode.base_register)].data = NewBase

\* what the executor writes back: the address after the last transfer, which
\* is the new base for a post-indexed transfer upwards only
C36_EndAddressWrittenBack ==
    WrittenBack =>
        /\ RbAfter = EndAddress
        /\ (last.opcode.increment /\ ~last.opcode.pre_increment) => RbAfter = NewBase

\* STMDB R13!, {R6, R7} wrote at R13 - 8 and R13 - 4 and left R13 as it was
C36_PreDownKeepsBase ==
    /\ BlockTransfer("STM")
    /\ last.opcode.write_address_into_base
    /\ last.opcode.base_register = 13 /\ last.opcode.rlist = {6, 7}
    /\ ~last.opcode.increment /\ last.opcode.pre_increment
    /\ bus.calls[1].addr = Minus(Rb0, W8)
    /\ RbAfter = Rb0

---------------------------------------------------------------------------
(* Steps that leave the CPSR alone                                         *)

\* the step retired a data-processing opcode with set_flags clear and
\* executed it
PlainDataProcessing == Executed("DataProcessing") /\ ~last.opcode.set_flags

\* the retired word was not executed: its condition failed or no decoder
\* accepts it
Skipped == last.op = "step" /\ ~last.executed

CpsrKept == cpu.registers.cpsr = initial.registers.cpsr

\* C37: a data-processing opcode executed with set_flags clear leaves the
\* CPSR bit for bit as it was, for every sub-opcode, every form of the second
\* operand and every destination register; so does a step that executes a B
\* or a BL, one whose condition fails and one that retires a word no decoder
\* accepts.
C37_CpsrKept ==
    (PlainDataProcessing \/ Executed("B") \/ Executed("BL") \/ Skipped) => CpsrKept

\* ADD R15, R1, R5, LSL R10 without set_flags was executed
C37_Witness ==
    /\ PlainDataProcessing
    /\ last.opcode.sub_opcode = ADD /\ last.opcode.rd = PC_IDX
    /\ last.opcode.operand.form = "RegisterShiftedRegister"
    /\ cpu.registers.user_bank[PC_IDX] # initial.registers.user_bank[PC_IDX]

\* SUB R0, R1, #0 without set_flags changed R0 while carry was clear
C37_WitnessArithmetic ==
    /\ PlainDataProcessing
    /\ last.opcode.sub_opcode = SUB /\ last.opcode.rd = 0
    /\ 29 \notin initial.registers.cpsr
    /\ Reg0(0) # SlotValue(cpu.registers, Mode0, 0)

\* a word no decoder accepts was retired
C37_WitnessUndecoded == last.op = "step" /\ last.opcode = None

\* BLEQ was retired with Z clear
C37_WitnessFailed ==
    /\ Skipped /\ last.opcode.kind = "BL"

\* BL was executed
C37_WitnessLink == Executed("BL") /\ 30 \in cpu.registers.cpsr

---------------------------------------------------------------------------
(* Shifts by a register                                                    *)

\* the shifted value and the shift amount of a register-specified shift
ShiftValue == Advanced(last.opcode.operand.operand_register)
ShiftAmount == LowByte(Before(last.opcode.operand.shift_register))

\* the carry of a shift of v by n > 0: the last bit shifted out for n < 32,
\* and for the longer shifts bit 0 (LSL) or bit 31 (LSR) of v for n = 32 and
\* zero for n > 32, bit 31 of v (ASR), bit 31 of the result (ROR)
CarryOut(shift_type, v, n) ==
    CASE shift_type = Lsl -> IF n < 32 THEN (32 - n) \in v ELSE n = 32 /\ 0 \in v
      [] shift_type = Lsr -> IF n < 32 THEN (n - 1) \in v ELSE n = 32 /\ 31 \in v
      [] shift_type = Asr -> IF n < 32 THEN (n - 1) \in v ELSE 31 \in v
      [] shift_type = Ror -> /\ 31 \in ShiftedBy(Ror, v, n)
                             /\ n < 32 => (n - 1) \in v

\* the result of a shift of v by n: zero for LSL and LSR by 32 or more, bit
\* 31 of v in every bit for ASR by 32 or more, v rotated by n mod 32 for ROR
LongShift(shift_type, v, n) ==
    CASE shift_type \in {Lsl, Lsr} -> {}
      [] shift_type = Asr -> IF 31 \in v THEN Bits32 ELSE {}
      [] shift_type = Ror -> ShiftedBy(Ror, v, n % 32)

\* C38: a shift of v by the low byte n of the shift register gives v and no
\* shifter carry for n = 0; LSL gives 0 with carry bit 0 of v for n = 32 and
\* carry clear for n > 32; LSR gives 0 with carry bit 31 of v for n = 32 and
\* carry clear for n > 32; ASR by 32 or more gives bit 31 of v in every bit
\* and as the carry; ROR by n > 0 gives v rotated by n mod 32 with carry bit
\* 31 of the result; for 0 < n < 32 the carry is the last bit shifted out.
C38_ShiftByRegister ==
    RegisterShift =>
        /\ ShiftAmount = 0 =>
              /\ last.operands.operand_b = ShiftValue
              /\ last.operands.shifted_carry = NoCarry
        /\ ShiftAmount > 0 =>
              /\ last.operands.operand_b =
                    ShiftedBy(last.opcode.operand.shift_type, ShiftValue, ShiftAmount)
              /\ last.operands.shifted_carry =
                    Some(CarryOut(last.opcode.operand.shift_type, ShiftValue, ShiftAmount))
        /\ ShiftAmount >= 32 =>
              last.operands.operand_b =
                  LongShift(last.opcode.operand.shift_type, ShiftValue, ShiftAmount)
        /\ (last.opcode.sub_opcode = MOV /\ last.opcode.set_flags) =>
              /\ SlotValue(cpu.registers, Mode0, 0) = last.operands.operand_b
              /\ 29 \in cpu.registers.cpsr <=>
                    IF ShiftAmount = 0
                    THEN 29 \in initial.registers.cpsr
                    ELSE CarryOut(last.opcode.operand.shift_type, ShiftValue, ShiftAmount)

\* MOVS R0, R1, LSL R8 shifted 1 by 33 with carry set before: R0 and the
\* carry are clear
C38_Witness ==
    /\ RegisterShift
    /\ last.opcode.sub_opcode = MOV /\ last.opcode.set_flags
    /\ last.opcode.operand.shift_type = Lsl
    /\ ShiftValue = {0} /\ ShiftAmount = 33
    /\ 29 \in initial.registers.cpsr
    /\ 29 \notin cpu.registers.cpsr
    /\ SlotValue(cpu.registers, Mode0, 0) = {}

\* MOVS R0, R3, LSR R6 shifted 0x80000000 by 32: R0 is clear and the carry set
C38_WitnessLsr32 ==
    /\ RegisterShift
    /\ last.opcode.sub_opcode = MOV /\ last.opcode.set_flags
    /\ last.opcode.operand.shift_type = Lsr
    /\ ShiftValue = {31} /\ ShiftAmount = 32
    /\ 29 \notin initial.registers.cpsr
    /\ 29 \in cpu.registers.cpsr
    /\ SlotValue(cpu.registers, Mode0, 0) = {}

\* MOVS R0, R9, ROR R14 rotated 0x12345678 by 68, that is by 4
C38_WitnessRor ==
    /\ RegisterShift
    /\ last.opcode.sub_opcode = MOV /\ last.opcode.set_flags
    /\ last.opcode.operand.shift_type = Ror
    /\ ShiftAmount = 68
    /\ SlotValue(cpu.registers, Mode0, 0) = U32(33059, 17767)
    /\ 29 \in cpu.registers.cpsr

---------------------------------------------------------------------------
(* Runs from the reset state                                               *)

\* the step before this state was called in Thumb state
CalledInThumb == last.op \in {"step", "panic"} /\ state(initial.registers) = "Thumb"

\* C39: in every state reached from the reset state by calls of step, over
\* any bus contents, the mode field of the CPSR is one of the seven mode
\* encodings, so that resolving the mode never aborts; and a step called in
\* Thumb state does not complete and leaves every register, status word and
\* pipeline slot as it was.
C39_ModeValidThumbHalts ==
    /\ ValidModeBits(cpu.registers.cpsr)
    /\ mode(cpu.registers) \in Modes
    /\ CalledInThumb => Aborted /\ cpu = initial

\* MOV R1, #1 and BX R1 were fetched and retired and the next step was
\* called in Thumb state
C39_Witness ==
    /\ steps = 5
    /\ CalledInThumb
    /\ SlotValue(cpu.registers, "System", 1) = {0}

\* MOVS PC, R1 restored the CPSR in System mode
C39_WitnessRestore ==
    /\ Executed("DataProcessing")
    /\ last.opcode.set_flags /\ last.opcode.rd = PC_IDX /\ last.opcode.sub_opcode = MOV
    /\ mode(cpu.registers) = "System"
    /\ steps >= 3

---------------------------------------------------------------------------
(* The user interface and the emulation thread                             *)

\* the emulation thread is between two commands: it waits in recv() or has
\* left its command loop
BetweenCommands == comm.thread # "loading"

\* the UI has sent Exit and is blocked in the rendezvous
ExitSent == comm.ui = "sending" /\ comm.cmd.kind = "Exit"

\* the join in on_exit has returned
Joined == comm.ui = "exited" /\ comm.thread = "terminated"

\* C40: the UI and the emulation thread interact by message passing only and
\* never deadlock: every LoadRom command the thread receives produces exactly
\* one update, LoadSuccess or LoadError, on the update channel before the
\* next command is received, and once the UI sends Exit the thread leaves its
\* command loop and terminates, so that the join in on_exit returns.
C40_MessagePassing ==
    /\ [](BetweenCommands => comm.produced = comm.received)
    /\ ExitSent ~> Joined

\* what the code guarantees: a LoadRom whose Gba::new returns produces one
\* update, and never more than one
C40_OneUpdateUnlessAborted ==
    /\ comm.produced <= comm.received
    /\ comm.thread \in {"recv", "terminated"} => comm.produced = comm.received
    /\ comm.thread = "loading" => comm.produced + 1 = comm.received
    /\ Len(comm.emu) <= comm.produced

\* what the code guarantees: an Exit sent while the emulation thread is alive
\* is received, and the join returns
C40_ExitWhileAlive == (ExitSent /\ comm.thread # "panicked") ~> (Joined \/ comm.thread = "panicked")

\* LoadRom with a ROM file of 191 bytes was received and Gba::new aborted the
\* emulation thread: no update was produced, and the UI aborted in
\* send_command
C40_LoadAborted ==
    /\ comm.thread = "panicked"
    /\ comm.job.kind = "LoadRom" /\ comm.job.rom.len = 191
    /\ comm.received = 1 /\ comm.produced = 0
    /\ comm.ui = "panicked"

\* two ROMs were loaded, Exit was sent and the join returned
C40_CleanExit == Joined /\ comm.received = 2 /\ comm.produced = 2

====
